---- MODULE Spec2Model ----
(***************************************************************************)
(* Bakery daemon: the Store (pies, slices, slice resources, audit log),    *)
(* the PortAllocator, the SliceOrchestrator, the control-API handlers and  *)
(* the router proxy, as a state machine.  Every control-API request runs   *)
(* in a request slot; a step of a slot is the code its handler runs from   *)
(* one await to the next: the synchronous prefix of an async function runs *)
(* with its call, and at every await the steps of other requests may run.  *)
(* Strings that the code processes character by character (pie names,     *)
(* slugs, Host headers) are sequences of pieces; hosts are strings built   *)
(* by concatenation as the code builds them.  The legacy columns           *)
(* (repo_path, worktree_path, branch) and the created_at columns carry no  *)
(* behaviour in the daemon and are left out of the rows of the Store; the  *)
(* schema migration, which is about these columns, has rows of its own.    *)
(*                                                                         *)
(* Spec is the control API from an empty database, SpecOnePie the control  *)
(* API from a database that holds a pie, SpecRouter the control API with   *)
(* the router proxy, SpecAlloc the port allocator called on its own,       *)
(* SpecStartup the control API behind the startup of the daemon,           *)
(* SpecPies the creation and removal of pies with names of every shape,    *)
(* and SpecOutput one createSlice with any list of resources, the listing  *)
(* of slices and the projection a client prints, SpecRoutes one            *)
(* createSlice with any list of resources, its stop and the router proxy,  *)
(* SpecHosts the router proxy with Host headers of every shape, SpecSlugs  *)
(* createSlice for two pies whose slugs differ behind the cut,             *)
(* SpecMigrate createDatabase on files of earlier schema versions, and     *)
(* SpecDown the `bakery down` command of the CLI.                          *)
(* wrote, everPorts, everOrdinals, appended, pending and retired record    *)
(* the history of a run and steer nothing.                                 *)
(***************************************************************************)
EXTENDS Integers, Sequences, FiniteSets, TLC

(* ------------------------------ bounds -------------------------------- *)

\* number of request slots (requests in flight at the same time)
MaxReqs == 2
\* total number of control-API requests started in one behaviour
MaxOps == 4
\* number of ports in the allocator's range
RangeSize == 3
\* largest value nowIso() returns
MaxClock == 1
\* largest count passed to allocateMany when it is called directly
MaxCount == 3
\* number of times createDatabase is called on one file
MaxOpens == 3

(* ------------------------- program constants -------------------------- *)

\* PortAllocator.rangeStart
RangeStart == 30000
\* PortAllocator.rangeEnd
RangeEnd == RangeStart + RangeSize - 1
\* .slice(0, 32) of slugify / slugifyPieName
MaxSlugLen == 32
\* options.hostSuffix
HostSuffix == "localtest.me"
\* the port the router proxy is bound to (routerPortProvider())
RouterPort == 4080
\* config.routerPortCandidates when BAKERY_ROUTER_PORTS is not set
RouterPortCandidates == <<80, 443, 4080>>
\* the port the operating system gives to listen(0)
OsAssignedPort == 49152

Range == RangeStart..RangeEnd
Reqs == 1..MaxReqs

\* CURRENT_SCHEMA_VERSION of db.ts
CURRENT_SCHEMA_VERSION == 2

\* no exchange at the router proxy
NoProxy == [statusCode |-> 0, host |-> "", hostname |-> "", port |-> 0]

\* SQL NULL in an integer column and in a text column
Null == -1
NullStr == "<null>"

VARIABLES
  db,       \* the Store: [pies, slices, resources, audit]
  req,      \* request slot -> the handler's position and locals
  nextId,   \* ids handed out so far (randomUUID never repeats)
  started,  \* number of requests started
  wrote,    \* slot -> whether the request in it has changed the Store
  everPorts,    \* ports ever persisted in slice_resources
  everOrdinals, \* <<pieId, ordinal>> of every slice ever persisted
  proxy,    \* the exchange the router proxy has just answered, if any
  appended,  \* slot -> kinds of the audit entries its request has appended
  pending,  \* the requests with a committed mutation not yet audited, in
            \* commit order; overtaken: an entry of a later mutation is
            \* already in the log
  daemon,   \* createDaemon: its position, the candidate it binds next, the
            \* ports whose bind failed, the port the router proxy is bound
            \* to, and its variable routerPort
  retired,  \* the route hosts of the slices that have ever been stopped,
            \* and of those that have ever been removed, and the id and
            \* pie of every slice that has been removed
  file,     \* the SQLite file createDatabase opens: its user_version, the
            \* columns and rows of its tables, and how the last open ended
  machine   \* the machine `bakery down` runs on: the pids in its state and
            \* pid files, its processes, the signals sent, and the
            \* position of downDaemon

vars == <<db, req, nextId, started, wrote, everPorts, everOrdinals, proxy,
          appended, pending, daemon, retired, file, machine>>

(* ------------------------------ strings ------------------------------- *)

UpperChars == <<"A","B","C","D","E","F","G","H","I","J","K","L","M",
                "N","O","P","Q","R","S","T","U","V","W","X","Y","Z">>
LowerChars == <<"a","b","c","d","e","f","g","h","i","j","k","l","m",
                "n","o","p","q","r","s","t","u","v","w","x","y","z">>
DigitChars == <<"0","1","2","3","4","5","6","7","8","9">>

Elems(s) == {s[i] : i \in 1..Len(s)}
SeqElems(s) == {s[i] : i \in 1..Len(s)}

\* [a-z0-9]
IsAlnum(c) == c \in Elems(LowerChars) \cup Elems(DigitChars)

\* String.prototype.toLowerCase on one character
toLowerChar(c) ==
  IF \E i \in 1..26 : UpperChars[i] = c
  THEN LowerChars[CHOOSE i \in 1..26 : UpperChars[i] = c]
  ELSE c

toLowerCase(s) == [i \in 1..Len(s) |-> toLowerChar(s[i])]

\* .replace(/[^a-z0-9]+/g, "-"): every maximal run of other characters
\* becomes one "-"
RECURSIVE replaceNonAlnumRuns(_)
replaceNonAlnumRuns(s) ==
  IF s = <<>> THEN <<>>
  ELSE IF IsAlnum(Head(s)) THEN <<Head(s)>> \o replaceNonAlnumRuns(Tail(s))
  ELSE IF Len(s) > 1 /\ ~IsAlnum(s[2]) THEN replaceNonAlnumRuns(Tail(s))
  ELSE <<"-">> \o replaceNonAlnumRuns(Tail(s))

RECURSIVE trimLeadingDashes(_)
trimLeadingDashes(s) ==
  IF s # <<>> /\ Head(s) = "-" THEN trimLeadingDashes(Tail(s)) ELSE s

RECURSIVE trimTrailingDashes(_)
trimTrailingDashes(s) ==
  IF s # <<>> /\ s[Len(s)] = "-"
  THEN trimTrailingDashes(SubSeq(s, 1, Len(s) - 1))
  ELSE s

\* .replace(/^-+|-+$/g, "")
trimDashes(s) == trimTrailingDashes(trimLeadingDashes(s))

\* .slice(0, n)
sliceTo(s, n) == SubSeq(s, 1, IF Len(s) < n THEN Len(s) ELSE n)

\* variant: slugifyPieName without .slice(0, 32)
slugifyPieNameUncut(value) ==
  trimDashes(replaceNonAlnumRuns(toLowerCase(value)))

slugifyPieName(value) ==
  sliceTo(trimDashes(replaceNonAlnumRuns(toLowerCase(value))), MaxSlugLen)

slugify(value) ==
  sliceTo(trimDashes(replaceNonAlnumRuns(toLowerCase(value))), MaxSlugLen)

\* the characters of a sequence as one string
RECURSIVE Join(_)
Join(s) == IF s = <<>> THEN "" ELSE Head(s) \o Join(Tail(s))

\* `${slugify(input.pie.slug)}-s${ordinal}.${this.options.hostSuffix}`
buildHost(slug, ordinal) ==
  Join(slugify(slug)) \o "-s" \o ToString(ordinal) \o "." \o HostSuffix

\* variant: the port suffix whatever the port
buildRouteUrlAlwaysPort(host, routerPort) ==
  "http://" \o host \o ":" \o ToString(routerPort)

\* buildRouteUrl(host, routerPort)
buildRouteUrl(host, routerPort) ==
  LET showPort == routerPort # 80 /\ routerPort # 443
  IN  "http://" \o host \o (IF showPort THEN ":" \o ToString(routerPort) ELSE "")

(* ------------------------------ inputs -------------------------------- *)

\* names a client sends to POST /v1/pies
Names == { <<"A", "!">>, <<"b">>, <<"*">> }

\* n times the character c
Repeat(c, n) == [i \in 1..n |-> c]

\* more names: none, names whose slug is longer than MaxSlugLen, one that
\* is cut right behind a "-", and two with the slug of another
LongNames ==
  { <<>>,
    Repeat("a", MaxSlugLen + 1),
    Repeat("A", MaxSlugLen),
    Repeat("a", MaxSlugLen - 1) \o <<"!", "b">>,
    <<"-", "7", "_", " ", "Z", "-">>,
    <<"7", "-", "z">> }

\* resources a client sends to POST /v1/slices
Res(key, protocol, expose) == [key |-> key, protocol |-> protocol, expose |-> expose]

ResourceLists ==
  { <<Res("web", "http", "primary")>>,
    <<Res("api", "http", "subdomain"), Res("db", "tcp", "none")>>,
    <<Res("web", "http", "primary"), Res("api", "http", "primary")>>,
    <<Res("db", "tcp", "none"), Res("db", "http", "subdomain")>>,
    <<>> }

\* every list of one or two resources over two keys, valid or not
AllRes ==
  { Res(key, protocol, expose) : key \in {"a", "b"},
                                 protocol \in {"http", "tcp", "udp"},
                                 expose \in {"primary", "subdomain", "none"} }

AllResourceLists ==
  {<<x>> : x \in AllRes} \cup {<<x, y>> : x \in AllRes, y \in AllRes}

\* ORDER BY key ASC over the keys of the resource lists
KeyOrder == <<"a", "api", "b", "db", "web">>
keyRank(key) == CHOOSE i \in 1..Len(KeyOrder) : KeyOrder[i] = key

\* An identifier a client sends is a string; it is matched against pies.id
\* and pies.slug.  An id is a 36-character UUID and a slug has at most 32
\* characters, so a string can match one column only: <<"id", n>> stands
\* for the UUID of pie n, <<"slug", s>> for any other string s.
ById(n) == <<"id", n>>
BySlug(s) == <<"slug", s>>

(* ------------------------------- Store -------------------------------- *)

NoPie == [id |-> 0, name |-> <<>>, slug |-> <<>>]

EmptyDb == [pies |-> {}, slices |-> {}, resources |-> {}, audit |-> <<>>]

\* the messages of the errors SQLite raises; NoError: the statement ran
ErrUnique(what) == "UNIQUE constraint failed: " \o what
ErrForeignKey == "FOREIGN KEY constraint failed"
NoError == ""

Max(S) == CHOOSE m \in S : \A x \in S : x <= m

\* variant: pies.slug declared without UNIQUE
PieInsertErrorNever(d, slug) == NoError

\* UNIQUE(slug) of table pies; the error INSERT raises
PieInsertError(d, slug) ==
  IF \E p \in d.pies : p.slug = slug THEN ErrUnique("pies.slug") ELSE NoError

\* BakeryRepository.createPie
createPie(d, id, name, slug) ==
  [d EXCEPT !.pies = @ \cup {[id |-> id, name |-> name, slug |-> slug]}]

\* BakeryRepository.findPieByIdOrSlug; NoPie stands for null
findPieByIdOrSlug(d, ident) ==
  LET hits == {p \in d.pies : \/ ident[1] = "id" /\ p.id = ident[2]
                              \/ ident[1] = "slug" /\ p.slug = ident[2]}
  IN  IF hits = {} THEN NoPie ELSE CHOOSE p \in hits : TRUE

\* variant: MAX(ordinal) without the + 1
getNextSliceOrdinalNoIncrement(d, pieId) ==
  Max({s.ordinal : s \in {t \in d.slices : t.pieId = pieId}} \cup {0})

\* variant: 1 for a pie without slices, else MAX(ordinal) without the + 1
getNextSliceOrdinalReuseMax(d, pieId) ==
  Max({s.ordinal : s \in {t \in d.slices : t.pieId = pieId}} \cup {1})

\* variant: MAX(ordinal) over the slices of every pie
getNextSliceOrdinalAllPies(d, pieId) ==
  Max({s.ordinal : s \in d.slices} \cup {0}) + 1

\* BakeryRepository.getNextSliceOrdinal
getNextSliceOrdinal(d, pieId) ==
  Max({s.ordinal : s \in {t \in d.slices : t.pieId = pieId}} \cup {0}) + 1

\* BakeryRepository.getAllocatedPorts
getAllocatedPorts(d) == {r.port : r \in d.resources}

\* variant: slices.pie_id declared without its FOREIGN KEY
SliceInsertErrorNoForeignKey(d, pieId, ordinal, host) ==
  IF \E s \in d.slices : s.host = host THEN ErrUnique("slices.host")
  ELSE IF \E s \in d.slices : s.pieId = pieId /\ s.ordinal = ordinal
       THEN ErrUnique("slices.pie_id, slices.ordinal")
  ELSE NoError

\* constraints of table slices: UNIQUE(host), UNIQUE(pie_id, ordinal) and
\* FOREIGN KEY (pie_id) REFERENCES pies(id); the error INSERT raises
SliceInsertError(d, pieId, ordinal, host) ==
  IF \E s \in d.slices : s.host = host THEN ErrUnique("slices.host")
  ELSE IF \E s \in d.slices : s.pieId = pieId /\ s.ordinal = ordinal
       THEN ErrUnique("slices.pie_id, slices.ordinal")
  ELSE IF ~\E p \in d.pies : p.id = pieId THEN ErrForeignKey
  ELSE NoError

\* variant: the row is inserted in status creating whatever the caller asks
createSliceRowCreating(d, id, pieId, ordinal, host, status) ==
  [d EXCEPT !.slices = @ \cup {[id |-> id, pieId |-> pieId, ordinal |-> ordinal,
                                host |-> host, status |-> "creating",
                                stoppedAt |-> Null]}]

\* BakeryRepository.createSlice
createSliceRow(d, id, pieId, ordinal, host, status) ==
  [d EXCEPT !.slices = @ \cup {[id |-> id, pieId |-> pieId, ordinal |-> ordinal,
                                host |-> host, status |-> status,
                                stoppedAt |-> Null]}]

\* constraints of table slice_resources as the records are inserted one
\* by one: UNIQUE(port), UNIQUE(route_host) (NULLs never collide),
\* UNIQUE(slice_id, key), FOREIGN KEY (slice_id) REFERENCES slices(id)
\* variant: slice_resources.port declared without UNIQUE
PortTakenNever(d, sliceId, records, i) == FALSE

PortTaken(d, sliceId, records, i) ==
  \/ \E r \in d.resources : r.port = records[i].port
  \/ \E j \in 1..(i - 1) : records[j].port = records[i].port

RouteHostTaken(d, sliceId, records, i) ==
  /\ records[i].routeHost # NullStr
  /\ \/ \E r \in d.resources : r.routeHost = records[i].routeHost
     \/ \E j \in 1..(i - 1) : records[j].routeHost = records[i].routeHost

KeyTaken(d, sliceId, records, i) ==
  \/ \E r \in d.resources : r.sliceId = sliceId /\ r.key = records[i].key
  \/ \E j \in 1..(i - 1) : records[j].key = records[i].key

\* variant: slice_resources declared without its UNIQUE constraints
ResourceInsertErrorForeignKeyOnly(d, sliceId, records) ==
  IF records # <<>> /\ ~\E t \in d.slices : t.id = sliceId THEN ErrForeignKey
  ELSE NoError

\* the error the transaction of addSliceResources raises, if any
ResourceInsertError(d, sliceId, records) ==
  IF \E i \in 1..Len(records) : PortTaken(d, sliceId, records, i)
  THEN ErrUnique("slice_resources.port")
  ELSE IF \E i \in 1..Len(records) : RouteHostTaken(d, sliceId, records, i)
  THEN ErrUnique("slice_resources.route_host")
  ELSE IF \E i \in 1..Len(records) : KeyTaken(d, sliceId, records, i)
  THEN ErrUnique("slice_resources.slice_id, slice_resources.key")
  ELSE IF records # <<>> /\ ~\E t \in d.slices : t.id = sliceId
  THEN ErrForeignKey
  ELSE NoError

\* BakeryRepository.addSliceResources, when its transaction commits
addSliceResources(d, sliceId, records) ==
  [d EXCEPT !.resources = @ \cup
     { [sliceId |-> sliceId, key |-> records[i].key, port |-> records[i].port,
        protocol |-> records[i].protocol, expose |-> records[i].expose,
        routeHost |-> records[i].routeHost,
        isPrimaryHttp |-> records[i].isPrimaryHttp] : i \in 1..Len(records) }]

\* variant: UPDATE slices SET status = ? only, stopped_at left as it is
updateSliceStatusOnly(d, sliceId, status, now) ==
  [d EXCEPT !.slices =
     { IF s.id = sliceId THEN [s EXCEPT !.status = status] ELSE s : s \in @ }]

\* BakeryRepository.updateSliceStatus
updateSliceStatus(d, sliceId, status, now) ==
  LET stoppedAt == IF status = "stopped" THEN now ELSE Null
  IN  [d EXCEPT !.slices =
         { IF s.id = sliceId
           THEN [s EXCEPT !.status = status, !.stoppedAt = stoppedAt]
           ELSE s : s \in @ }]

\* variant: audit_log.slice_id declared ON DELETE CASCADE
NullSliceRefsCascade(audit, sliceIds) ==
  SelectSeq(audit, LAMBDA a : a.sliceId \notin sliceIds)

\* ON DELETE SET NULL of audit_log.slice_id
NullSliceRefs(audit, sliceIds) ==
  [i \in 1..Len(audit) |->
     IF audit[i].sliceId \in sliceIds THEN [audit[i] EXCEPT !.sliceId = Null]
     ELSE audit[i]]

\* variant: audit_log.pie_id declared ON DELETE CASCADE
NullPieRefsCascade(audit, pieId) ==
  SelectSeq(audit, LAMBDA a : a.pieId # pieId)

\* ON DELETE SET NULL of audit_log.pie_id
NullPieRefs(audit, pieId) ==
  [i \in 1..Len(audit) |->
     IF audit[i].pieId = pieId THEN [audit[i] EXCEPT !.pieId = Null]
     ELSE audit[i]]

\* BakeryRepository.deleteSlice with the cascades of the schema
deleteSlice(d, sliceId) ==
  [d EXCEPT !.slices = {s \in @ : s.id # sliceId},
            !.resources = {r \in @ : r.sliceId # sliceId},
            !.audit = NullSliceRefs(@, {sliceId})]

\* BakeryRepository.deletePie with the cascades of the schema
deletePie(d, pieId) ==
  LET gone == {s.id : s \in {t \in d.slices : t.pieId = pieId}}
  IN  [d EXCEPT !.pies = {p \in @ : p.id # pieId},
                !.slices = {s \in @ : s.pieId # pieId},
                !.resources = {r \in @ : r.sliceId \notin gone},
                !.audit = NullPieRefs(NullSliceRefs(@, gone), pieId)]

\* BakeryRepository.getSliceById; the empty set stands for null
getSliceById(d, sliceId) == {s \in d.slices : s.id = sliceId}

\* foreign keys of table audit_log; the error INSERT raises
AuditInsertError(d, pieId, sliceId) ==
  IF \/ pieId # Null /\ ~\E p \in d.pies : p.id = pieId
     \/ sliceId # Null /\ ~\E t \in d.slices : t.id = sliceId
  THEN ErrForeignKey
  ELSE NoError

\* BakeryRepository.appendAuditLog; detail is the payload's slice id
appendAuditLog(d, kind, pieId, sliceId, detail) ==
  [d EXCEPT !.audit = Append(@, [kind |-> kind, pieId |-> pieId,
                                 sliceId |-> sliceId, payload |-> detail])]

\* BakeryRepository.listSlices({pieId}): ORDER BY created_at DESC; ids are
\* handed out in creation order, so newest first is highest id first
RECURSIVE NewestFirst(_)
NewestFirst(S) ==
  IF S = {} THEN <<>>
  ELSE LET top == CHOOSE s \in S : \A t \in S : t.id <= s.id
       IN  <<top>> \o NewestFirst(S \ {top})

listSlices(d, pieId) == NewestFirst({s \in d.slices : s.pieId = pieId})

\* toSliceResource; NullStr stands for an absent routeHost or routeUrl
toSliceResource(row, routerPort) ==
  LET showPort == routerPort # 80 /\ routerPort # 443
  IN  [key |-> row.key, protocol |-> row.protocol, expose |-> row.expose,
       allocatedPort |-> row.port, routeHost |-> row.routeHost,
       routeUrl |-> IF row.routeHost # NullStr
                    THEN "http://" \o row.routeHost
                         \o (IF showPort THEN ":" \o ToString(routerPort) ELSE "")
                    ELSE NullStr]

\* SELECT * FROM slice_resources WHERE slice_id = ? ORDER BY key ASC
RECURSIVE KeyAscending(_)
KeyAscending(S) ==
  IF S = {} THEN <<>>
  ELSE LET first == CHOOSE x \in S : \A y \in S : keyRank(x.key) <= keyRank(y.key)
       IN  <<first>> \o KeyAscending(S \ {first})

\* BakeryRepository.listSlices with the resources of every slice; pieId is
\* Null when the input names no pie
listSlicesWithResources(d, pieId, routerPort) ==
  LET rows == NewestFirst({s \in d.slices : pieId = Null \/ s.pieId = pieId})
  IN  [i \in 1..Len(rows) |->
         LET resourceRows == KeyAscending({x \in d.resources : x.sliceId = rows[i].id})
         IN  [id |-> rows[i].id, pieId |-> rows[i].pieId, ordinal |-> rows[i].ordinal,
              host |-> rows[i].host, status |-> rows[i].status,
              stoppedAt |-> rows[i].stoppedAt,
              resources |-> [k \in 1..Len(resourceRows) |->
                               toSliceResource(resourceRows[k], routerPort)]]]

\* variant: WHERE s.host = ? in place of WHERE sr.route_host = ?
getHostRouteBySliceHost(d, host) ==
  { [host |-> j[2].host, port |-> j[1].port, sliceId |-> j[1].sliceId,
     pieId |-> j[2].pieId, sliceStatus |-> j[2].status] :
    j \in {k \in d.resources \X d.slices :
             k[2].host = host /\ k[2].id = k[1].sliceId} }

\* BakeryRepository.getHostRoute: the resource with this route_host joined
\* with its slice; the empty set stands for null
getHostRoute(d, host) ==
  { [host |-> j[1].routeHost, port |-> j[1].port, sliceId |-> j[1].sliceId,
     pieId |-> j[2].pieId, sliceStatus |-> j[2].status] :
    j \in {k \in d.resources \X d.slices :
             k[1].routeHost = host /\ k[2].id = k[1].sliceId} }

(* ---------------------------- PortAllocator --------------------------- *)

ErrCount == "count must be a positive integer"
ErrExhausted(count) ==
  "Unable to allocate " \o ToString(count) \o " free ports in configured range"

\* variant: the loop without `if (reserved.has(port)) continue`
NextCandidateIgnoringReserved(from, reserved) ==
  IF from <= RangeEnd THEN from ELSE 0

\* variant: the loop with `port < this.rangeEnd`
NextCandidateShortRange(from, reserved) ==
  LET free == {p \in from..(RangeEnd - 1) : p \notin reserved}
  IN  IF free = {} THEN 0 ELSE CHOOSE p \in free : \A x \in free : p <= x

\* the for loop of allocateMany from `from` on, up to its next await: the
\* first port of the range that is not reserved, 0 when the loop runs out
NextCandidate(from, reserved) ==
  LET free == {p \in from..RangeEnd : p \notin reserved}
  IN  IF free = {} THEN 0 ELSE CHOOSE p \in free : \A x \in free : p <= x

\* allocateMany(count, existingPorts) up to its first await; q is the
\* caller's slot.  A throw ends the request with the error as its outcome
\* and hands no ports to the caller.
allocateManyCall(q, count, existingPorts) ==
  LET first == NextCandidate(RangeStart, existingPorts)
      q0 == [q EXCEPT !.count = count, !.existing = existingPorts,
                      !.reserved = existingPorts, !.ports = <<>>,
                      !.passed = {}, !.probed = {}]
  IN  IF count <= 0 THEN [q0 EXCEPT !.pc = "done", !.outcome = ErrCount]
      ELSE IF first = 0
      THEN [q0 EXCEPT !.pc = "done", !.outcome = ErrExhausted(count)]
      ELSE [q0 EXCEPT !.pc = "probe", !.cursor = first]

\* variant: past the end of the range the ports found so far are returned
\* instead of the throw
allocateManyResumePartial(q, available) ==
  LET port == q.cursor
      q0 == [q EXCEPT !.probed = @ \cup {port},
                      !.passed = IF available THEN @ \cup {port} ELSE @]
      ports == IF available THEN Append(q.ports, port) ELSE q.ports
      reserved == IF available THEN q.reserved \cup {port} ELSE q.reserved
      next == NextCandidate(port + 1, reserved)
  IN  IF (available /\ Len(ports) = q.count) \/ next = 0
      THEN [q0 EXCEPT !.pc = "allocated", !.ports = ports, !.reserved = reserved]
      ELSE [q0 EXCEPT !.ports = ports, !.reserved = reserved, !.cursor = next]

\* allocateMany from the moment probe(cursor) resolves with `available` up
\* to its next await, its return or its throw
allocateManyResume(q, available) ==
  LET port == q.cursor
      q0 == [q EXCEPT !.probed = @ \cup {port},
                      !.passed = IF available THEN @ \cup {port} ELSE @]
      ports == IF available THEN Append(q.ports, port) ELSE q.ports
      reserved == IF available THEN q.reserved \cup {port} ELSE q.reserved
      next == NextCandidate(port + 1, reserved)
  IN  IF available /\ Len(ports) = q.count
      THEN [q0 EXCEPT !.pc = "allocated", !.ports = ports, !.reserved = reserved]
      ELSE IF next = 0
      THEN [q0 EXCEPT !.pc = "done", !.ports = <<>>, !.reserved = reserved,
                      !.outcome = ErrExhausted(q.count)]
      ELSE [q0 EXCEPT !.ports = ports, !.reserved = reserved, !.cursor = next]

(* ------------------------------ startup ------------------------------- *)

\* createDaemon before bindToFirstAvailablePort: routerPort holds the first
\* candidate; candidate Len(RouterPortCandidates) + 1 stands for the
\* fallback listen(0), whose failure is recorded as port 0
Booting ==
  [pc |-> "bind", candidate |-> 1, failed |-> {}, bound |-> 0,
   routerPort |-> RouterPortCandidates[1]]

\* createDaemon once the control API listens, the router proxy bound to
\* port: the candidates before it have failed
Serving(port) ==
  LET n == Len(RouterPortCandidates)
      i == IF \E k \in 1..n : RouterPortCandidates[k] = port
           THEN CHOOSE k \in 1..n : RouterPortCandidates[k] = port
           ELSE n + 1
  IN  [pc |-> "serving", candidate |-> i,
       failed |-> {RouterPortCandidates[k] : k \in 1..(i - 1)},
       bound |-> port, routerPort |-> port]

\* variant: a candidate whose bind fails ends the loop, the fallback comes
\* next
bindToFirstAvailablePortOneTry(dm, ok) ==
  LET n == Len(RouterPortCandidates)
      i == dm.candidate
  IN  IF i <= n
      THEN IF ok THEN [dm EXCEPT !.pc = "bound", !.bound = RouterPortCandidates[i]]
           ELSE [dm EXCEPT !.candidate = n + 1,
                           !.failed = @ \cup {RouterPortCandidates[i]}]
      ELSE IF ok THEN [dm EXCEPT !.pc = "bound", !.bound = OsAssignedPort]
           ELSE [dm EXCEPT !.pc = "failed", !.failed = @ \cup {0}]

\* bindToFirstAvailablePort from the moment the listen of its current
\* candidate settles (ok: the server listens) to its next await, its
\* return or its throw
bindToFirstAvailablePort(dm, ok) ==
  LET n == Len(RouterPortCandidates)
      i == dm.candidate
  IN  IF i <= n
      THEN IF ok THEN [dm EXCEPT !.pc = "bound", !.bound = RouterPortCandidates[i]]
           ELSE [dm EXCEPT !.candidate = i + 1,
                           !.failed = @ \cup {RouterPortCandidates[i]}]
      ELSE IF ok THEN [dm EXCEPT !.pc = "bound", !.bound = OsAssignedPort]
           ELSE [dm EXCEPT !.pc = "failed", !.failed = @ \cup {0}]

\* createDaemon from the return of bindToFirstAvailablePort to the await
\* of app.listen: routerPort takes the port of the router's address, the
\* allocator, the orchestrator and the routes are set up
resolveRouterPort(dm) == [dm EXCEPT !.pc = "listen", !.routerPort = dm.bound]

\* the listen of a router server settles
RouterBinds(ok) ==
  /\ daemon.pc = "bind"
  /\ daemon' = bindToFirstAvailablePort(daemon, ok)
  /\ UNCHANGED <<db, req, nextId, started, wrote, everPorts, everOrdinals,
                 proxy, appended, pending, retired, file, machine>>

\* createDaemon resumes after the await of bindToFirstAvailablePort
DaemonResumes ==
  /\ daemon.pc = "bound"
  /\ daemon' = resolveRouterPort(daemon)
  /\ UNCHANGED <<db, req, nextId, started, wrote, everPorts, everOrdinals,
                 proxy, appended, pending, retired, file, machine>>

\* app.listen settles: the control API listens, or createDaemon rejects
ApiListens(ok) ==
  /\ daemon.pc = "listen"
  /\ daemon' = [daemon EXCEPT !.pc = IF ok THEN "serving" ELSE "failed"]
  /\ UNCHANGED <<db, req, nextId, started, wrote, everPorts, everOrdinals,
                 proxy, appended, pending, retired, file, machine>>

(* --------------------------- request slots ---------------------------- *)

\* no projection printed
NoOutput == [error |-> "", id |-> 0, pieId |-> 0, host |-> "", routerPort |-> 0,
             url |-> "", allocatedPorts |-> <<>>, resources |-> <<>>]

\* the locals of a handler; name is the name POST /v1/pies was sent, ident
\* the identifier DELETE /v1/pies was sent,
\* result is the list of slices it returns and
\* output what the client prints of it; existing, passed, probed and seenOrdinals are
\* kept for the record only: the argument of allocateMany, the ports whose
\* probe resolved true, the ports probed, and the ordinals of the pie's
\* slices when getNextSliceOrdinal read them
IdleReq ==
  [kind |-> "none", pc |-> "idle", outcome |-> "", pie |-> NoPie,
   resources |-> <<>>, ordinal |-> 0, host |-> "", count |-> 0,
   existing |-> {}, reserved |-> {}, cursor |-> 0, ports |-> <<>>,
   passed |-> {}, probed |-> {}, seenOrdinals |-> {}, sliceId |-> 0,
   queue |-> <<>>, slices |-> <<>>, name |-> <<>>, ident |-> BySlug(<<>>),
   result |-> <<>>, output |-> NoOutput]

Done(q, outcome) == [q EXCEPT !.pc = "done", !.outcome = outcome]

\* a slot is free before its first request and once its request is done;
\* a done slot keeps the outcome of its request until the next one arrives
Free(q) == q.pc \in {"idle", "done"}

\* the positions at which a handler has committed its mutation and has yet
\* to append the audit entry of it
AwaitsAudit(q) == q.pc \in {"audit", "stopAudit", "removeAudit", "pieRemoved"}

\* what every step of slot r records: whether the request has written to
\* the Store, the ports and ordinals that have ever been persisted, and
\* the route hosts of the slices stopped or removed and the id and pie of
\* every slice removed; no handler assigns
\* routerPort
Record(r) ==
  /\ daemon' = daemon
  /\ file' = file
  /\ machine' = machine
  /\ retired' =
       [stopped |-> retired.stopped \cup
          {x.routeHost : x \in {y \in db'.resources :
             /\ y.routeHost # NullStr
             /\ \E t \in db'.slices : t.id = y.sliceId /\ t.status = "stopped"}},
        removed |-> retired.removed \cup
          {x.routeHost : x \in {y \in db.resources :
             /\ y.routeHost # NullStr
             /\ \A t \in db'.slices : t.id # y.sliceId}},
        slices |-> retired.slices \cup
          {[id |-> t.id, pieId |-> t.pieId] :
             t \in {u \in db.slices : \A v \in db'.slices : v.id # u.id}}]
  /\ wrote' = [wrote EXCEPT ![r] = (~Free(req[r]) /\ @) \/ db' # db]
  /\ everPorts' = everPorts \cup getAllocatedPorts(db')
  /\ everOrdinals' = everOrdinals \cup {<<t.pieId, t.ordinal>> : t \in db'.slices}
  /\ proxy' = NoProxy
  /\ appended' = [appended EXCEPT ![r] =
                   (IF Free(req[r]) THEN <<>> ELSE @)
                   \o [i \in 1..(Len(db'.audit) - Len(db.audit)) |->
                        db'.audit[Len(db.audit) + i].kind]]
  /\ pending' =
       LET audits == Len(db'.audit) > Len(db.audit)
           before == IF \E i \in 1..Len(pending) : pending[i].slot = r
                     THEN (CHOOSE i \in 1..Len(pending) : pending[i].slot = r) - 1
                     ELSE Len(pending)
           marked == [i \in 1..Len(pending) |->
                        IF audits /\ i <= before
                        THEN [pending[i] EXCEPT !.overtaken = TRUE]
                        ELSE pending[i]]
           others == SelectSeq(marked, LAMBDA x : x.slot # r)
       IN  IF AwaitsAudit(req'[r])
           THEN Append(others, [slot |-> r, overtaken |-> FALSE])
           ELSE others

\* a request arrives at the control API, which is listening; the slots are
\* interchangeable, it takes the first free one
Arrives(r) ==
  /\ daemon.pc = "serving"
  /\ Free(req[r])
  /\ \A other \in 1..(r - 1) : ~Free(req[other])
  /\ started < MaxOps
  /\ started' = started + 1

\* the times nowIso() can return: the clock never runs behind a timestamp
\* it has given out
Nows(d) == Max({t.stoppedAt : t \in d.slices} \cup {0})..MaxClock

(* ---------------------------- router proxy ---------------------------- *)

\* a Host header is a sequence of pieces: ":" , " ", single letters, and
\* longer runs of lower-case characters that the code handles as they are

\* .split(":")[0]
RECURSIVE beforeFirstColon(_)
beforeFirstColon(s) ==
  IF s = <<>> \/ Head(s) = ":" THEN <<>>
  ELSE <<Head(s)>> \o beforeFirstColon(Tail(s))

\* String.prototype.trim
RECURSIVE trim(_)
trim(s) ==
  IF s # <<>> /\ Head(s) = " " THEN trim(Tail(s))
  ELSE IF s # <<>> /\ s[Len(s)] = " " THEN trim(SubSeq(s, 1, Len(s) - 1))
  ELSE s

\* normalizeHost; an absent header and an empty one are both <<>>
normalizeHost(rawHostHeader) ==
  IF rawHostHeader = <<>> THEN ""
  ELSE Join(toLowerCase(trim(beforeFirstColon(rawHostHeader))))

\* variant: the route is used whatever the status of its slice
routerResponseAnyStatus(d, rawHostHeader) ==
  LET host == normalizeHost(rawHostHeader)
      route == getHostRoute(d, host)
  IN  IF host = ""
      THEN [statusCode |-> 400, host |-> host, hostname |-> "", port |-> 0]
      ELSE IF route = {}
      THEN [statusCode |-> 404, host |-> host, hostname |-> "", port |-> 0]
      ELSE [statusCode |-> 200, host |-> host, hostname |-> "127.0.0.1",
            port |-> (CHOOSE x \in route : TRUE).port]

\* variant: a route whose slice is not running is answered like no route
routerResponseStoppedIsMissing(d, rawHostHeader) ==
  LET host == normalizeHost(rawHostHeader)
      route == getHostRoute(d, host)
  IN  IF host = ""
      THEN [statusCode |-> 400, host |-> host, hostname |-> "", port |-> 0]
      ELSE IF route = {} \/ (CHOOSE x \in route : TRUE).sliceStatus # "running"
      THEN [statusCode |-> 404, host |-> host, hostname |-> "", port |-> 0]
      ELSE [statusCode |-> 200, host |-> host, hostname |-> "127.0.0.1",
            port |-> (CHOOSE x \in route : TRUE).port]

\* the listener of createRouterProxyServer: the answer it gives itself
\* (400, 404, 503) or, with statusCode 200, the upstream it forwards to
routerResponse(d, rawHostHeader) ==
  LET host == normalizeHost(rawHostHeader)
      route == getHostRoute(d, host)
  IN  IF host = ""
      THEN [statusCode |-> 400, host |-> host, hostname |-> "", port |-> 0]
      ELSE IF route = {}
      THEN [statusCode |-> 404, host |-> host, hostname |-> "", port |-> 0]
      ELSE IF (CHOOSE x \in route : TRUE).sliceStatus # "running"
      THEN [statusCode |-> 503, host |-> host, hostname |-> "", port |-> 0]
      ELSE [statusCode |-> 200, host |-> host, hostname |-> "127.0.0.1",
            port |-> (CHOOSE x \in route : TRUE).port]

\* a request reaches the router proxy
RouterRequest(rawHostHeader) ==
  /\ proxy' = routerResponse(db, rawHostHeader)
  /\ UNCHANGED <<db, req, nextId, started, wrote, everPorts, everOrdinals,
                 appended, pending, daemon, retired, file, machine>>

\* String.prototype.toUpperCase on one character
toUpperChar(c) ==
  IF \E i \in 1..26 : LowerChars[i] = c
  THEN UpperChars[CHOOSE i \in 1..26 : LowerChars[i] = c]
  ELSE c

\* Host headers a client sends: none, a port alone, an unknown host, and
\* for every slice its host and the route hosts of its resources, bare,
\* with a port, and in upper case between blanks
HostHeaders(d) ==
  {<<>>, <<":", "80">>, <<" ">>, <<"nohost", ".", HostSuffix>>}
  \cup {<<t.host>> : t \in d.slices}
  \cup {<<x.routeHost>> : x \in {y \in d.resources : y.routeHost # NullStr}}
  \cup {<<x.routeHost, ":", ToString(RouterPort)>> :
          x \in {y \in d.resources : y.routeHost # NullStr}}
  \cup UNION { {<<" ">> \o [i \in 1..Len(p.slug) |-> toUpperChar(p.slug[i])]
                  \o <<"-s", ToString(t.ordinal), ".", HostSuffix, " ", ":", "80">> :
                  t \in {u \in d.slices : u.pieId = p.id}} : p \in d.pies }

\* Host headers a client goes on sending: the route hosts of the slices
\* that have been stopped or removed
RetiredHeaders == {<<host>> : host \in retired.stopped \cup retired.removed}

\* Host headers that name a resource by its key, routed or not:
\* key "." host of its slice
KeyHeaders(d) ==
  UNION { {<<x.key \o "." \o t.host>> : x \in {y \in d.resources : y.sliceId = t.id}} :
          t \in d.slices }

(* ------------------------------ handlers ------------------------------ *)

ErrEmptySlug == "Pie name must include at least one alphanumeric character"
ErrPieNotFound == "Pie not found"
ErrSliceNotFound == "Slice not found"
ErrValidation == "invalid request"
ErrIdentRequired == "Pie identifier is required"
EmptyIdent(ident) == ident[1] = "slug" /\ ident[2] = <<>>
ErrInternalPorts == "Internal port allocation failure"

\* handleCreatePie: POST /v1/pies {name}
HandleCreatePie(r, name) ==
  LET slug == slugifyPieName(name)
      q == [IdleReq EXCEPT !.kind = "createPie", !.name = name]
      id == nextId + 1
  IN  /\ Arrives(r)
      /\ IF Len(name) < 1
         THEN /\ req' = [req EXCEPT ![r] = Done(q, ErrValidation)]
              /\ UNCHANGED <<db, nextId>>
         ELSE IF slug = <<>>
         THEN /\ req' = [req EXCEPT ![r] = Done(q, ErrEmptySlug)]
              /\ UNCHANGED <<db, nextId>>
         ELSE IF PieInsertError(db, slug) # NoError
         THEN /\ req' = [req EXCEPT ![r] = Done(q, PieInsertError(db, slug))]
              /\ UNCHANGED <<db, nextId>>
         ELSE /\ db' = appendAuditLog(createPie(db, id, name, slug),
                                      "pie.created", id, Null, Null)
              /\ nextId' = id
              /\ req' = [req EXCEPT ![r] =
                           Done([q EXCEPT !.pie = [id |-> id, name |-> name,
                                                   slug |-> slug]], "ok")]
      /\ Record(r)

\* CreateSliceRequestSchema: a non-empty pieId, at least one resource, no
\* key twice, at most one resource with protocol http and expose primary
ValidCreateSliceRequest(ident, resources) ==
  /\ ~EmptyIdent(ident)
  /\ Len(resources) >= 1
  /\ \A i, j \in 1..Len(resources) : i # j => resources[i].key # resources[j].key
  /\ Cardinality({i \in 1..Len(resources) :
                   resources[i].protocol = "http" /\ resources[i].expose = "primary"}) <= 1

\* the status the route POST /v1/pies answers with
createPieStatus(outcome) ==
  IF outcome = "ok" THEN 201
  ELSE IF outcome = ErrUnique("pies.slug") THEN 409
  ELSE 400

\* the status the route POST /v1/slices answers with
createSliceStatus(outcome) ==
  IF outcome = "ok" THEN 201
  ELSE IF outcome = ErrPieNotFound THEN 404
  ELSE 400

\* the status the route GET /v1/slices answers with
listSlicesStatus(outcome) ==
  IF outcome = "ok" THEN 200
  ELSE IF outcome = ErrPieNotFound THEN 404
  ELSE 400

\* variant: the routes without their 404 branch
mutateSliceStatusAlways400(outcome) == IF outcome = "ok" THEN 200 ELSE 400

\* the status the routes POST /v1/slices/:id/stop and DELETE /v1/slices/:id
\* answer with
mutateSliceStatus(outcome) ==
  IF outcome = "ok" THEN 200
  ELSE IF outcome = ErrSliceNotFound \/ outcome = ErrPieNotFound THEN 404
  ELSE 400

\* the status the route DELETE /v1/pies/:id answers with
removePieStatus(outcome) ==
  IF outcome = "ok" THEN 200
  ELSE IF outcome = ErrSliceNotFound \/ outcome = ErrPieNotFound THEN 404
  ELSE 400

\* the status of the response to the request of a done slot
responseStatus(q) ==
  CASE q.kind = "createPie" -> createPieStatus(q.outcome)
    [] q.kind = "createSlice" -> createSliceStatus(q.outcome)
    [] q.kind = "listSlices" -> listSlicesStatus(q.outcome)
    [] q.kind \in {"stopSlice", "removeSlice"} -> mutateSliceStatus(q.outcome)
    [] q.kind = "removePie" -> removePieStatus(q.outcome)

\* handleCreateSlice and SliceOrchestrator.createSlice up to the first
\* await inside allocateMany
HandleCreateSlice(r, ident, resources) ==
  LET q == [IdleReq EXCEPT !.kind = "createSlice"]
      pie == findPieByIdOrSlug(db, ident)
      ordinal == getNextSliceOrdinal(db, pie.id)
      host == buildHost(pie.slug, ordinal)
      q1 == [q EXCEPT !.pie = pie, !.ordinal = ordinal, !.host = host,
                      !.resources = resources,
                      !.seenOrdinals = {t.ordinal : t \in {u \in db.slices : u.pieId = pie.id}}]
  IN  /\ Arrives(r)
      /\ req' = [req EXCEPT ![r] =
           IF ~ValidCreateSliceRequest(ident, resources) THEN Done(q, ErrValidation)
           ELSE IF pie = NoPie THEN Done(q, ErrPieNotFound)
           ELSE allocateManyCall(q1, Len(resources), getAllocatedPorts(db))]
      /\ UNCHANGED <<db, nextId>>
      /\ Record(r)

\* probe(port) resolves; the port is free or bound by some other process
ProbeResolves(r, available) ==
  /\ req[r].pc = "probe"
  /\ req' = [req EXCEPT ![r] = allocateManyResume(@, available)]
  /\ UNCHANGED <<db, nextId, started>>
  /\ Record(r)

\* variant: the routeHost is given whatever the protocol
routeHostOfAnyProtocol(resource, host) ==
  IF resource.expose = "primary" THEN host
  ELSE IF resource.expose = "subdomain" THEN resource.key \o "." \o host
  ELSE NullStr

\* the routeHost createSlice gives a resource
routeHostOf(resource, host) ==
  IF resource.protocol = "http" /\ resource.expose = "primary" THEN host
  ELSE IF resource.protocol = "http" /\ resource.expose = "subdomain"
       THEN resource.key \o "." \o host
  ELSE NullStr

\* variant: resource i is paired with the i-th port from the end
returnedResourcesFromEnd(resources, ports, host, routerPort) ==
  [i \in 1..Len(resources) |->
     LET routeHost == routeHostOf(resources[i], host)
     IN  [key |-> resources[i].key, protocol |-> resources[i].protocol,
          expose |-> resources[i].expose,
          allocatedPort |-> ports[Len(resources) + 1 - i],
          routeHost |-> routeHost,
          routeUrl |-> IF routeHost # NullStr
                       THEN buildRouteUrl(routeHost, routerPort)
                       ELSE NullStr]]

\* the SliceResource list createSlice returns (assignedResources of the
\* code); NullStr stands for an absent routeHost or routeUrl
returnedResources(resources, ports, host, routerPort) ==
  [i \in 1..Len(resources) |->
     LET routeHost == routeHostOf(resources[i], host)
     IN  [key |-> resources[i].key, protocol |-> resources[i].protocol,
          expose |-> resources[i].expose, allocatedPort |-> ports[i],
          routeHost |-> routeHost,
          routeUrl |-> IF routeHost # NullStr
                       THEN buildRouteUrl(routeHost, routerPort)
                       ELSE NullStr]]

\* the OrchestratedSlice createSlice returns
orchestratedSlice(q, id, routerPort) ==
  [id |-> id, pieId |-> q.pie.id, ordinal |-> q.ordinal, host |-> q.host,
   status |-> "running", stoppedAt |-> Null,
   resources |-> returnedResources(q.resources, q.ports, q.host, routerPort),
   pieSlug |-> q.pie.slug, routerPort |-> routerPort]

\* the records createSlice passes to addSliceResources
assignedResources(resources, ports, host) ==
  [i \in 1..Len(resources) |->
     [key |-> resources[i].key, port |-> ports[i],
      protocol |-> resources[i].protocol, expose |-> resources[i].expose,
      routeHost |-> routeHostOf(resources[i], host),
      isPrimaryHttp |-> (resources[i].protocol = "http"
                         /\ resources[i].expose = "primary")]]

\* SliceOrchestrator.createSlice from the return of allocateMany to its
\* own return: routerPortProvider(), repo.createSlice, the resource
\* mapping, addSliceResources
CreateSlicePersists(r) ==
  LET q == req[r]
      id == nextId + 1
      sliceError == SliceInsertError(db, q.pie.id, q.ordinal, q.host)
      withSlice == createSliceRow(db, id, q.pie.id, q.ordinal, q.host, "running")
      records == assignedResources(q.resources, q.ports, q.host)
      resourceError == ResourceInsertError(withSlice, id, records)
  IN  /\ q.pc = "allocated"
      /\ q.kind = "createSlice"
      /\ IF sliceError # NoError
         THEN /\ req' = [req EXCEPT ![r] = Done(q, sliceError)]
              /\ UNCHANGED <<db, nextId>>
         ELSE IF Len(q.ports) < Len(q.resources)
         THEN /\ req' = [req EXCEPT ![r] = Done([q EXCEPT !.sliceId = id], ErrInternalPorts)]
              /\ db' = withSlice
              /\ nextId' = id
         ELSE IF resourceError # NoError
         THEN /\ req' = [req EXCEPT ![r] = Done([q EXCEPT !.sliceId = id], resourceError)]
              /\ db' = withSlice
              /\ nextId' = id
         ELSE /\ req' = [req EXCEPT ![r] =
                           [q EXCEPT !.pc = "audit", !.sliceId = id,
                                     !.result = <<orchestratedSlice(q, id, daemon.routerPort)>>]]
              /\ db' = addSliceResources(withSlice, id, records)
              /\ nextId' = id
      /\ UNCHANGED started
      /\ Record(r)

\* handleCreateSlice after the await of orchestrator.createSlice
CreateSliceAudits(r) ==
  LET q == req[r]
      error == AuditInsertError(db, q.pie.id, q.sliceId)
  IN  /\ q.pc = "audit"
      /\ q.kind = "createSlice"
      /\ IF error # NoError
         THEN /\ req' = [req EXCEPT ![r] = Done(q, error)]
              /\ UNCHANGED db
         ELSE /\ req' = [req EXCEPT ![r] = Done(q, "ok")]
              /\ db' = appendAuditLog(db, "slice.created", q.pie.id, q.sliceId, Null)
      /\ UNCHANGED <<nextId, started>>
      /\ Record(r)

ErrCombine == "Cannot combine pieId filter with all=true"

\* handleListSlices: GET /v1/slices?pieId=&all=; an absent pieId and an
\* empty one are both BySlug(<<>>)
HandleListSlices(r, ident, allFlag) ==
  LET q == [IdleReq EXCEPT !.kind = "listSlices"]
      pie == findPieByIdOrSlug(db, ident)
  IN  /\ Arrives(r)
      /\ req' = [req EXCEPT ![r] =
           IF ~EmptyIdent(ident) /\ allFlag THEN Done(q, ErrCombine)
           ELSE IF ~EmptyIdent(ident) /\ pie = NoPie THEN Done(q, ErrPieNotFound)
           ELSE Done([q EXCEPT !.result =
                        listSlicesWithResources(db, IF EmptyIdent(ident) THEN Null
                                                    ELSE pie.id,
                                                daemon.routerPort)], "ok")]
      /\ UNCHANGED <<db, nextId>>
      /\ Record(r)

ErrOutput == "ZodError"

\* variant: allocatedPorts in descending order of the list
toSliceCreateOutputReversed(slice) ==
  LET n == Len(slice.resources)
      hits == {i \in 1..n : slice.resources[i].protocol = "http"
                             /\ slice.resources[i].expose = "primary"}
      first == CHOOSE i \in hits : \A j \in hits : i <= j
  IN  IF n < 1 THEN [NoOutput EXCEPT !.error = ErrOutput]
      ELSE [error |-> "", id |-> slice.id, pieId |-> slice.pieId, host |-> slice.host,
            routerPort |-> slice.routerPort,
            url |-> IF hits = {} THEN NullStr ELSE slice.resources[first].routeUrl,
            allocatedPorts |-> [i \in 1..n |-> slice.resources[n + 1 - i].allocatedPort],
            resources |-> slice.resources]

\* toSliceCreateOutput: the projection and SliceCreateOutputSchema.parse,
\* which throws on an empty resource list; NullStr stands for a null url
toSliceCreateOutput(slice) ==
  LET n == Len(slice.resources)
      hits == {i \in 1..n : slice.resources[i].protocol = "http"
                             /\ slice.resources[i].expose = "primary"}
      first == CHOOSE i \in hits : \A j \in hits : i <= j
  IN  IF n < 1 THEN [NoOutput EXCEPT !.error = ErrOutput]
      ELSE [error |-> "", id |-> slice.id, pieId |-> slice.pieId, host |-> slice.host,
            routerPort |-> slice.routerPort,
            url |-> IF hits = {} THEN NullStr ELSE slice.resources[first].routeUrl,
            allocatedPorts |-> [i \in 1..n |-> slice.resources[i].allocatedPort],
            resources |-> slice.resources]

\* runSliceCreate of the client after the response of POST /v1/slices
RunSliceCreateReturns(r) ==
  /\ req[r].kind = "createSlice"
  /\ req[r].pc = "done"
  /\ req[r].outcome = "ok"
  /\ req[r].output = NoOutput
  /\ req' = [req EXCEPT ![r].output = toSliceCreateOutput(req[r].result[1])]
  /\ UNCHANGED <<db, nextId, started, wrote, everPorts, everOrdinals, proxy,
                 appended, pending, daemon, retired, file, machine>>

\* handleStopSlice up to the await of orchestrator.stopSlice, which has
\* run updateSliceStatus by then
HandleStopSlice(r, sliceId, now) ==
  LET q == [IdleReq EXCEPT !.kind = "stopSlice", !.sliceId = sliceId]
      found == getSliceById(db, sliceId)
      slice == CHOOSE t \in found : TRUE
      pie == findPieByIdOrSlug(db, ById(slice.pieId))
  IN  /\ Arrives(r)
      /\ IF found = {}
         THEN /\ req' = [req EXCEPT ![r] = Done(q, ErrSliceNotFound)]
              /\ UNCHANGED db
         ELSE IF pie = NoPie
         THEN /\ req' = [req EXCEPT ![r] = Done(q, ErrPieNotFound)]
              /\ UNCHANGED db
         ELSE /\ req' = [req EXCEPT ![r] = [q EXCEPT !.pc = "stopAudit", !.pie = pie]]
              /\ db' = updateSliceStatus(db, slice.id, "stopped", now)
      /\ UNCHANGED nextId
      /\ Record(r)

\* handleStopSlice after the await: the slice.stopped audit entry
StopSliceAudits(r) ==
  LET q == req[r]
      error == AuditInsertError(db, q.pie.id, q.sliceId)
  IN  /\ q.pc = "stopAudit"
      /\ IF error # NoError
         THEN /\ req' = [req EXCEPT ![r] = Done(q, error)]
              /\ UNCHANGED db
         ELSE /\ req' = [req EXCEPT ![r] = Done(q, "ok")]
              /\ db' = appendAuditLog(db, "slice.stopped", q.pie.id, q.sliceId, Null)
      /\ UNCHANGED <<nextId, started>>
      /\ Record(r)

\* handleRemoveSlice up to the await of orchestrator.removeSlice, which
\* has run deleteSlice by then
HandleRemoveSlice(r, sliceId) ==
  LET q == [IdleReq EXCEPT !.kind = "removeSlice", !.sliceId = sliceId]
      found == getSliceById(db, sliceId)
      slice == CHOOSE t \in found : TRUE
      pie == findPieByIdOrSlug(db, ById(slice.pieId))
  IN  /\ Arrives(r)
      /\ IF found = {}
         THEN /\ req' = [req EXCEPT ![r] = Done(q, ErrSliceNotFound)]
              /\ UNCHANGED db
         ELSE IF pie = NoPie
         THEN /\ req' = [req EXCEPT ![r] = Done(q, ErrPieNotFound)]
              /\ UNCHANGED db
         ELSE /\ req' = [req EXCEPT ![r] = [q EXCEPT !.pc = "removeAudit", !.pie = pie]]
              /\ db' = deleteSlice(db, slice.id)
      /\ UNCHANGED nextId
      /\ Record(r)

\* variant: the slice.deleted entry is appended without a pieId
RemoveSliceAuditsNoPie(r) ==
  LET q == req[r]
  IN  /\ q.pc = "removeAudit"
      /\ req' = [req EXCEPT ![r] = Done(q, "ok")]
      /\ db' = appendAuditLog(db, "slice.deleted", Null, Null, q.sliceId)
      /\ UNCHANGED <<nextId, started>>
      /\ Record(r)

\* handleRemoveSlice after the await: the slice.deleted audit entry, with
\* pieId only
RemoveSliceAudits(r) ==
  LET q == req[r]
      error == AuditInsertError(db, q.pie.id, Null)
  IN  /\ q.pc = "removeAudit"
      /\ IF error # NoError
         THEN /\ req' = [req EXCEPT ![r] = Done(q, error)]
              /\ UNCHANGED db
         ELSE /\ req' = [req EXCEPT ![r] = Done(q, "ok")]
              /\ db' = appendAuditLog(db, "slice.deleted", q.pie.id, Null, q.sliceId)
      /\ UNCHANGED <<nextId, started>>
      /\ Record(r)

\* handleRemovePie at the head of its for loop, up to the next await: the
\* stop or the removal of the next listed slice or, past the last one,
\* deletePie and the pie.deleted audit entry.  d is the Store, q the slot.
RemovePieLoop(d, q, now) ==
  IF q.queue = <<>>
  THEN [db |-> appendAuditLog(deletePie(d, q.pie.id), "pie.deleted", Null, Null, q.pie.id),
        q |-> Done(q, "ok")]
  ELSE IF Head(q.queue).status # "stopped"
  THEN [db |-> updateSliceStatus(d, Head(q.queue).id, "stopped", now),
        q |-> [q EXCEPT !.pc = "pieStopped"]]
  ELSE [db |-> deleteSlice(d, Head(q.queue).id),
        q |-> [q EXCEPT !.pc = "pieRemoved"]]

\* handleRemovePie: DELETE /v1/pies/{idOrSlug}, up to its first await
HandleRemovePie(r, ident, now) ==
  LET q == [IdleReq EXCEPT !.kind = "removePie", !.ident = ident]
      pie == findPieByIdOrSlug(db, ident)
      next == RemovePieLoop(db, [q EXCEPT !.pie = pie,
                                          !.slices = listSlices(db, pie.id),
                                          !.queue = listSlices(db, pie.id)],
                            now)
  IN  /\ Arrives(r)
      /\ IF EmptyIdent(ident)
         THEN /\ req' = [req EXCEPT ![r] = Done(q, ErrIdentRequired)]
              /\ UNCHANGED db
         ELSE IF pie = NoPie
         THEN /\ req' = [req EXCEPT ![r] = Done(q, ErrPieNotFound)]
              /\ UNCHANGED db
         ELSE /\ req' = [req EXCEPT ![r] = next.q]
              /\ db' = next.db
      /\ UNCHANGED nextId
      /\ Record(r)

\* handleRemovePie after the await of stopSlice: removeSlice of that slice
RemovePieRemoves(r) ==
  LET q == req[r]
  IN  /\ q.pc = "pieStopped"
      /\ req' = [req EXCEPT ![r] = [q EXCEPT !.pc = "pieRemoved"]]
      /\ db' = deleteSlice(db, Head(q.queue).id)
      /\ UNCHANGED <<nextId, started>>
      /\ Record(r)

\* variant: the loop goes on without the slice.deleted audit entry
RemovePieAuditsNothing(r, now) ==
  LET q == req[r]
      next == RemovePieLoop(db, [q EXCEPT !.queue = Tail(@)], now)
  IN  /\ q.pc = "pieRemoved"
      /\ req' = [req EXCEPT ![r] = next.q]
      /\ db' = next.db
      /\ UNCHANGED <<nextId, started>>
      /\ Record(r)

\* handleRemovePie after the await of removeSlice: the slice.deleted audit
\* entry, then the next round of the loop
RemovePieAudits(r, now) ==
  LET q == req[r]
      error == AuditInsertError(db, q.pie.id, Null)
      audited == appendAuditLog(db, "slice.deleted", q.pie.id, Null, Head(q.queue).id)
      next == RemovePieLoop(audited, [q EXCEPT !.queue = Tail(@)], now)
  IN  /\ q.pc = "pieRemoved"
      /\ IF error # NoError
         THEN /\ req' = [req EXCEPT ![r] = Done(q, error)]
              /\ UNCHANGED db
         ELSE /\ req' = [req EXCEPT ![r] = next.q]
              /\ db' = next.db
      /\ UNCHANGED <<nextId, started>>
      /\ Record(r)

(* -------------------------------- cli --------------------------------- *)

\* The machine `bakery down` runs on: the pid of the state file
\* daemon.json and the pid of daemon.pid (0: no file, or a file without a
\* positive pid), the command line of every process (Dead: no such
\* process; <<>>: ps gives no command for it), the signals sent so far,
\* each with the command line of the process at that moment, and the
\* position of downDaemon.
Pids == {1, 2}
Dead == <<"<dead>">>

\* no `bakery down` on the machine
NoMachine ==
  [statePid |-> 0, pidFile |-> 0, procs |-> [pid \in Pids |-> Dead],
   signals |-> {}, pc |-> "none", target |-> 0, branch |-> "", stopped |-> FALSE]

\* command lines as sequences of pieces
Commands ==
  { <<"node", " ", "/opt/", "bakery-daemon", "/index.js">>,
    <<"tsx", " ", "/repo/", "packages/daemon", "/src/index.ts">>,
    <<"Bakery", " ", "Daemon">>,
    <<"nginx">>,
    <<"cron", " ", "daemon">>,
    <<>> }

\* String.prototype.toLowerCase on a piece of a command line
lowerPiece(piece) ==
  IF piece = "Bakery" THEN "bakery"
  ELSE IF piece = "Daemon" THEN "daemon"
  ELSE piece

\* the needles of isBakeryOwnedCommand a lower-case piece contains
needlesIn(piece) ==
  IF piece = "bakery-daemon" THEN {"bakery-daemon", "bakery", "daemon"}
  ELSE IF piece = "packages/daemon" THEN {"packages/daemon", "daemon"}
  ELSE IF piece = "bakery" THEN {"bakery"}
  ELSE IF piece = "daemon" THEN {"daemon"}
  ELSE {}

\* String.prototype.includes on a lower-cased command line
includes(command, needle) ==
  \E i \in 1..Len(command) : needle \in needlesIn(lowerPiece(command[i]))

isBakeryOwnedCommand(command) ==
  \/ includes(command, "bakery-daemon")
  \/ includes(command, "packages/daemon")
  \/ includes(command, "bakery") /\ includes(command, "daemon")

\* isPidAlive: process.kill(pid, 0) does not throw
isPidAlive(m, pid) == m.procs[pid] # Dead

\* getProcessCommand: the output of ps, <<>> standing for null
getProcessCommand(m, pid) == IF isPidAlive(m, pid) THEN m.procs[pid] ELSE <<>>

\* process.kill(pid, signal) on a live process
kill(m, pid, signal) ==
  [m EXCEPT !.signals = @ \cup {[pid |-> pid, signal |-> signal,
                                 command |-> m.procs[pid]]}]

\* clearDaemonState: both files removed
clearDaemonState(m) == [m EXCEPT !.statePid = 0, !.pidFile = 0]

\* terminatePid up to its first await, or to its return when the process
\* is not alive
terminatePid(m, pid) ==
  IF ~isPidAlive(m, pid) THEN [m EXCEPT !.pc = "terminated"]
  ELSE [kill(m, pid, "SIGTERM") EXCEPT !.pc = "polling", !.target = pid]

\* cleanupPidFile up to the await of terminatePid, or to its return
cleanupPidFile(m, removeIfNotOwned) ==
  LET pid == m.pidFile
      command == getProcessCommand(m, pid)
  IN  IF pid = 0 THEN [m EXCEPT !.pidFile = 0, !.pc = "cleaned"]
      ELSE IF ~isPidAlive(m, pid) THEN [m EXCEPT !.pidFile = 0, !.pc = "cleaned"]
      ELSE IF command = <<>> \/ ~isBakeryOwnedCommand(command)
      THEN [m EXCEPT !.pidFile = IF removeIfNotOwned THEN 0 ELSE @, !.pc = "cleaned"]
      ELSE [terminatePid(m, pid) EXCEPT !.branch = "pidFile"]

\* downDaemon up to its first await, or to its return
downDaemon(m) ==
  LET command == getProcessCommand(m, m.statePid)
  IN  IF m.statePid > 0
      THEN IF ~isPidAlive(m, m.statePid)
           THEN [clearDaemonState(m) EXCEPT !.pc = "done", !.stopped = FALSE]
           ELSE IF command # <<>> /\ ~isBakeryOwnedCommand(command)
           THEN [m EXCEPT !.pc = "done", !.stopped = FALSE]
           ELSE [terminatePid(m, m.statePid) EXCEPT !.branch = "state"]
      ELSE LET cleaned == cleanupPidFile(m, TRUE)
           IN  IF cleaned.pc = "cleaned"
               THEN [cleaned EXCEPT !.pc = "done", !.stopped = FALSE]
               ELSE cleaned

\* `bakery down`
DownDaemon ==
  /\ machine.pc = "ready"
  /\ machine' = downDaemon(machine)
  /\ UNCHANGED <<db, req, nextId, started, wrote, everPorts, everOrdinals,
                 proxy, appended, pending, daemon, retired, file>>

\* a process ends, of itself or on a signal
ProcessExits(pid) ==
  /\ machine.procs[pid] # Dead
  /\ machine' = [machine EXCEPT !.procs[pid] = Dead]
  /\ UNCHANGED <<db, req, nextId, started, wrote, everPorts, everOrdinals,
                 proxy, appended, pending, daemon, retired, file>>

\* terminatePid in its polling loop: the process is gone, or the deadline
\* has passed and SIGKILL is sent; then the caller removes its files
TerminateResumes(deadline) ==
  LET pid == machine.target
      gone == ~isPidAlive(machine, pid)
      killed == IF gone \/ ~deadline THEN machine ELSE kill(machine, pid, "SIGKILL")
      cleared == IF machine.branch = "state" THEN clearDaemonState(killed)
                 ELSE [killed EXCEPT !.pidFile = 0]
  IN  /\ machine.pc = "polling"
      /\ gone \/ deadline
      /\ machine' = [cleared EXCEPT !.pc = "done",
                                    !.stopped = (machine.branch = "state" /\ gone)]
      /\ UNCHANGED <<db, req, nextId, started, wrote, everPorts, everOrdinals,
                     proxy, appended, pending, daemon, retired, file>>

(* -------------------------- schema migration -------------------------- *)

\* The SQLite file createDatabase opens.  A table is its set of column
\* names (empty: the table does not exist) and its set of rows, a row being
\* a function from the column names to values.  Of the retained columns
\* the keys, the foreign keys and one data column per table are kept.
Tables == {"pies", "slices", "slice_resources", "audit_log"}

\* the columns ensureLatestSchema creates
LatestColumns ==
  [pies |-> {"id", "slug"},
   slices |-> {"id", "pie_id", "ordinal"},
   slice_resources |-> {"id", "slice_id", "port"},
   audit_log |-> {"id", "pie_id", "slice_id", "kind"}]

\* the columns of the legacy schema that the migration drops
LegacyColumns ==
  [pies |-> {"repo_path"},
   slices |-> {"worktree_path", "branch"},
   slice_resources |-> {},
   audit_log |-> {}]

NoFile ==
  [userVersion |-> 0,
   columns |-> [t \in Tables |-> {}],
   rows |-> [t \in Tables |-> {}],
   outcome |-> "none", found |-> <<>>]

ErrForeignKeyCheck == "Foreign key check failed after schema migration"

tableExists(f, tableName) == f.columns[tableName] # {}

hasColumn(f, tableName, columnName) ==
  tableExists(f, tableName) /\ columnName \in f.columns[tableName]

\* ensureLatestSchema: CREATE TABLE IF NOT EXISTS for each table
ensureLatestSchema(f) ==
  [f EXCEPT !.columns =
     [t \in Tables |-> IF tableExists(f, t) THEN f.columns[t] ELSE LatestColumns[t]]]

\* variant: the new table is created and renamed without the INSERT ...
\* SELECT that copies the rows
RecreateTableEmpty(f, tableName) ==
  [f EXCEPT !.columns[tableName] = LatestColumns[tableName],
            !.rows[tableName] = {}]

\* CREATE TABLE t_new; INSERT INTO t_new SELECT the retained columns FROM
\* t; DROP TABLE t; ALTER TABLE t_new RENAME TO t, with foreign_keys OFF
RecreateTable(f, tableName) ==
  [f EXCEPT !.columns[tableName] = LatestColumns[tableName],
            !.rows[tableName] =
               { [c \in LatestColumns[tableName] |-> row[c]] : row \in @ }]

\* the transaction migrate of migrateLegacyPathColumns
migrate(f) ==
  LET piesHasLegacyRepoPath == hasColumn(f, "pies", "repo_path")
      slicesHasLegacyColumns == \/ hasColumn(f, "slices", "worktree_path")
                                \/ hasColumn(f, "slices", "branch")
      pies == IF piesHasLegacyRepoPath /\ tableExists(f, "pies")
              THEN RecreateTable(f, "pies") ELSE f
      slices == IF slicesHasLegacyColumns /\ tableExists(pies, "slices")
                THEN RecreateTable(pies, "slices") ELSE pies
  IN  ensureLatestSchema(slices)

\* the ids a foreign key may refer to
RowIds(f, tableName) == {row["id"] : row \in f.rows[tableName]}

\* PRAGMA foreign_key_check: the rows whose foreign key refers to no row
foreignKeyCheck(f) ==
  {<<"slices", row>> : row \in {x \in f.rows["slices"] :
                                  x["pie_id"] \notin RowIds(f, "pies")}}
  \cup {<<"slice_resources", row>> :
          row \in {x \in f.rows["slice_resources"] :
                     x["slice_id"] \notin RowIds(f, "slices")}}
  \cup {<<"audit_log", row>> :
          row \in {x \in f.rows["audit_log"] :
                     \/ x["pie_id"] # Null /\ x["pie_id"] \notin RowIds(f, "pies")
                     \/ x["slice_id"] # Null
                        /\ x["slice_id"] \notin RowIds(f, "slices")}}

\* migrateLegacyPathColumns: the file it leaves and the error it throws
migrateLegacyPathColumns(f) ==
  LET piesHasLegacyRepoPath == hasColumn(f, "pies", "repo_path")
      slicesHasLegacyColumns == \/ hasColumn(f, "slices", "worktree_path")
                                \/ hasColumn(f, "slices", "branch")
      committed == migrate(f)
  IN  IF ~piesHasLegacyRepoPath /\ ~slicesHasLegacyColumns
      THEN [file |-> f, error |-> NoError]
      ELSE IF foreignKeyCheck(committed) # {}
      THEN [file |-> committed, error |-> ErrForeignKeyCheck]
      ELSE [file |-> committed, error |-> NoError]

\* createDatabase: the file after the call; outcome "open" when it
\* returns the connection, the error when it throws
createDatabase(f) ==
  LET migrated == IF f.userVersion < CURRENT_SCHEMA_VERSION
                  THEN migrateLegacyPathColumns(f)
                  ELSE [file |-> f, error |-> NoError]
  IN  IF migrated.error # NoError
      THEN [migrated.file EXCEPT !.outcome = migrated.error]
      ELSE [ensureLatestSchema(migrated.file) EXCEPT
              !.userVersion = CURRENT_SCHEMA_VERSION, !.outcome = "open"]

\* the legacy columns of a file
LegacyFound(f) ==
  UNION {f.columns[t] \cap LegacyColumns[t] : t \in Tables}

\* createDatabase(dbPath) on a file no connection is open to; found
\* records the legacy columns each call has met and steers nothing
OpenDatabase ==
  /\ file.outcome # "open"
  /\ Len(file.found) < MaxOpens
  /\ file' = [createDatabase(file) EXCEPT !.found = Append(@, LegacyFound(file))]
  /\ UNCHANGED <<db, req, nextId, started, wrote, everPorts, everOrdinals,
                 proxy, appended, pending, daemon, retired, machine>>

\* db.close()
CloseDatabase ==
  /\ file.outcome = "open"
  /\ file' = [file EXCEPT !.outcome = "closed"]
  /\ UNCHANGED <<db, req, nextId, started, wrote, everPorts, everOrdinals,
                 proxy, appended, pending, daemon, retired, machine>>

(* --------------------------- specifications --------------------------- *)

\* identifiers of the pies and slices of the Store, and one of none
PieIdents == {ById(p.id) : p \in db.pies} \cup {BySlug(p.slug) : p \in db.pies}
               \cup {ById(0), BySlug(<<>>)}
SliceIds == {t.id : t \in db.slices} \cup {0}

Init ==
  /\ db = EmptyDb
  /\ req = [r \in Reqs |-> IdleReq]
  /\ nextId = 0
  /\ started = 0
  /\ wrote = [r \in Reqs |-> FALSE]
  /\ everPorts = {}
  /\ everOrdinals = {}
  /\ proxy = NoProxy
  /\ appended = [r \in Reqs |-> <<>>]
  /\ pending = <<>>
  /\ retired = [stopped |-> {}, removed |-> {}, slices |-> {}]
  /\ file = NoFile
  /\ machine = NoMachine
  /\ daemon = Serving(RouterPort)

Next ==
  \/ \E r \in Reqs, name \in Names : HandleCreatePie(r, name)
  \/ \E r \in Reqs, ident \in PieIdents, resources \in ResourceLists :
       HandleCreateSlice(r, ident, resources)
  \/ \E r \in Reqs, available \in BOOLEAN : ProbeResolves(r, available)
  \/ \E r \in Reqs : CreateSlicePersists(r)
  \/ \E r \in Reqs : CreateSliceAudits(r)
  \/ \E r \in Reqs, sliceId \in SliceIds, now \in Nows(db) :
       HandleStopSlice(r, sliceId, now)
  \/ \E r \in Reqs : StopSliceAudits(r)
  \/ \E r \in Reqs, sliceId \in SliceIds : HandleRemoveSlice(r, sliceId)
  \/ \E r \in Reqs : RemoveSliceAudits(r)
  \/ \E r \in Reqs, ident \in PieIdents, now \in Nows(db) :
       HandleRemovePie(r, ident, now)
  \/ \E r \in Reqs : RemovePieRemoves(r)
  \/ \E r \in Reqs, now \in Nows(db) : RemovePieAudits(r, now)

Spec == Init /\ [][Next]_vars

\* allocateMany called directly, with any count and any set of existing
\* ports
InitAlloc ==
  /\ db = EmptyDb
  /\ \E count \in 0..MaxCount, existing \in SUBSET (RangeStart..(RangeEnd + 1)) :
       req = [r \in Reqs |->
                IF r = 1
                THEN [IdleReq EXCEPT !.kind = "allocateMany", !.pc = "call",
                                     !.count = count, !.existing = existing]
                ELSE IdleReq]
  /\ nextId = 0
  /\ started = 0
  /\ wrote = [r \in Reqs |-> FALSE]
  /\ everPorts = {}
  /\ everOrdinals = {}
  /\ proxy = NoProxy
  /\ appended = [r \in Reqs |-> <<>>]
  /\ pending = <<>>
  /\ retired = [stopped |-> {}, removed |-> {}, slices |-> {}]
  /\ file = NoFile
  /\ machine = NoMachine
  /\ daemon = Serving(RouterPort)

AllocateManyCalled(r) ==
  /\ req[r].pc = "call"
  /\ req' = [req EXCEPT ![r] = allocateManyCall(@, @.count, @.existing)]
  /\ UNCHANGED <<db, nextId, started>>
  /\ Record(r)

NextAlloc ==
  \/ \E r \in Reqs : AllocateManyCalled(r)
  \/ \E r \in Reqs, available \in BOOLEAN : ProbeResolves(r, available)

SpecAlloc == InitAlloc /\ [][NextAlloc]_vars

\* the daemon started on a database that already holds one pie
InitOnePie ==
  /\ db = appendAuditLog(createPie(EmptyDb, 1, <<"b">>, slugifyPieName(<<"b">>)),
                         "pie.created", 1, Null, Null)
  /\ req = [r \in Reqs |-> IdleReq]
  /\ nextId = 1
  /\ started = 0
  /\ wrote = [r \in Reqs |-> FALSE]
  /\ everPorts = {}
  /\ everOrdinals = {}
  /\ proxy = NoProxy
  /\ appended = [r \in Reqs |-> <<>>]
  /\ pending = <<>>
  /\ retired = [stopped |-> {}, removed |-> {}, slices |-> {}]
  /\ file = NoFile
  /\ machine = NoMachine
  /\ daemon = Serving(RouterPort)

SpecOnePie == InitOnePie /\ [][Next]_vars

\* POST /v1/pies with names of every shape, and the removal of pies
InitPies ==
  /\ db = EmptyDb
  /\ req = [r \in Reqs |-> IdleReq]
  /\ nextId = 0
  /\ started = 0
  /\ wrote = [r \in Reqs |-> FALSE]
  /\ everPorts = {}
  /\ everOrdinals = {}
  /\ proxy = NoProxy
  /\ appended = [r \in Reqs |-> <<>>]
  /\ pending = <<>>
  /\ retired = [stopped |-> {}, removed |-> {}, slices |-> {}]
  /\ file = NoFile
  /\ machine = NoMachine
  /\ daemon = Serving(RouterPort)

NextPies ==
  \/ \E r \in Reqs, name \in Names \cup LongNames : HandleCreatePie(r, name)
  \/ \E r \in Reqs, ident \in PieIdents, now \in Nows(db) :
       HandleRemovePie(r, ident, now)

SpecPies == InitPies /\ [][NextPies]_vars

\* the daemon from createDaemon on: the startup, then the control API
InitStartup ==
  /\ db = EmptyDb
  /\ req = [r \in Reqs |-> IdleReq]
  /\ nextId = 0
  /\ started = 0
  /\ wrote = [r \in Reqs |-> FALSE]
  /\ everPorts = {}
  /\ everOrdinals = {}
  /\ proxy = NoProxy
  /\ appended = [r \in Reqs |-> <<>>]
  /\ pending = <<>>
  /\ retired = [stopped |-> {}, removed |-> {}, slices |-> {}]
  /\ file = NoFile
  /\ machine = NoMachine
  /\ daemon = Booting

NextStartup ==
  \/ \E ok \in BOOLEAN : RouterBinds(ok)
  \/ DaemonResumes
  \/ \E ok \in BOOLEAN : ApiListens(ok)
  \/ Next

SpecStartup == InitStartup /\ [][NextStartup]_vars

\* the ports the router proxy can be bound to
RouterPorts == SeqElems(RouterPortCandidates) \cup {OsAssignedPort}

\* the daemon serving on any router port, its database holding one pie;
\* two requests are still to come
InitOutput ==
  /\ db = appendAuditLog(createPie(EmptyDb, 1, <<"b">>, slugifyPieName(<<"b">>)),
                         "pie.created", 1, Null, Null)
  /\ req = [r \in Reqs |-> IdleReq]
  /\ nextId = 1
  /\ started = MaxOps - 2
  /\ wrote = [r \in Reqs |-> FALSE]
  /\ everPorts = {}
  /\ everOrdinals = {}
  /\ proxy = NoProxy
  /\ appended = [r \in Reqs |-> <<>>]
  /\ pending = <<>>
  /\ retired = [stopped |-> {}, removed |-> {}, slices |-> {}]
  /\ file = NoFile
  /\ machine = NoMachine
  /\ \E port \in RouterPorts : daemon = Serving(port)

\* a POST /v1/slices with any list of resources, then a listing, and the
\* client printing what it created
NextOutput ==
  \/ \E r \in Reqs, ident \in PieIdents, resources \in AllResourceLists :
       started = MaxOps - 2 /\ HandleCreateSlice(r, ident, resources)
  \/ \E r \in Reqs, available \in BOOLEAN : ProbeResolves(r, available)
  \/ \E r \in Reqs : CreateSlicePersists(r)
  \/ \E r \in Reqs : CreateSliceAudits(r)
  \/ \E r \in Reqs, ident \in PieIdents, allFlag \in BOOLEAN :
       HandleListSlices(r, ident, allFlag)
  \/ \E r \in Reqs : RunSliceCreateReturns(r)

SpecOutput == InitOutput /\ [][NextOutput]_vars

\* the daemon with the router on its default port, its database holding
\* one pie; two requests are still to come
InitRoutes ==
  /\ db = appendAuditLog(createPie(EmptyDb, 1, <<"b">>, slugifyPieName(<<"b">>)),
                         "pie.created", 1, Null, Null)
  /\ req = [r \in Reqs |-> IdleReq]
  /\ nextId = 1
  /\ started = MaxOps - 2
  /\ wrote = [r \in Reqs |-> FALSE]
  /\ everPorts = {}
  /\ everOrdinals = {}
  /\ proxy = NoProxy
  /\ appended = [r \in Reqs |-> <<>>]
  /\ pending = <<>>
  /\ retired = [stopped |-> {}, removed |-> {}, slices |-> {}]
  /\ file = NoFile
  /\ machine = NoMachine
  /\ daemon = Serving(RouterPort)

\* a POST /v1/slices with any list of resources, a stop of the slice, and
\* the router proxy
NextRoutes ==
  \/ \E r \in Reqs, ident \in PieIdents, resources \in AllResourceLists :
       started = MaxOps - 2 /\ HandleCreateSlice(r, ident, resources)
  \/ \E r \in Reqs, available \in BOOLEAN : ProbeResolves(r, available)
  \/ \E r \in Reqs : CreateSlicePersists(r)
  \/ \E r \in Reqs : CreateSliceAudits(r)
  \/ \E r \in Reqs, sliceId \in SliceIds, now \in Nows(db) :
       HandleStopSlice(r, sliceId, now)
  \/ \E r \in Reqs : StopSliceAudits(r)
  \/ \E rawHostHeader \in HostHeaders(db) \cup KeyHeaders(db) :
       RouterRequest(rawHostHeader)

SpecRoutes == InitRoutes /\ [][NextRoutes]_vars

\* Host headers with more than one colon: a bracketed IPv6 literal with and
\* without a port, a bare IPv6 literal, and a route host followed by two
\* ports
ColonHeaders(d) ==
  { <<"[", ":", ":", "1", "]", ":", "80">>,
    <<"[", ":", ":", "1", "]">>,
    <<":", ":", "1">> }
  \cup {<<x.routeHost, ":", "80", ":", ToString(RouterPort)>> :
          x \in {y \in d.resources : y.routeHost # NullStr}}

\* a request reaches the router proxy; the exchange is kept together with
\* the Host header it came with
RouterExchange(rawHostHeader) ==
  /\ proxy' = routerResponse(db, rawHostHeader) @@ [rawHostHeader |-> rawHostHeader]
  /\ UNCHANGED <<db, req, nextId, started, wrote, everPorts, everOrdinals,
                 appended, pending, daemon, retired, file, machine>>

\* a POST /v1/slices, a stop of the slice, and the router proxy with Host
\* headers of every shape
NextHosts ==
  \/ \E r \in Reqs, ident \in PieIdents, resources \in ResourceLists :
       started = MaxOps - 2 /\ HandleCreateSlice(r, ident, resources)
  \/ \E r \in Reqs, available \in BOOLEAN : ProbeResolves(r, available)
  \/ \E r \in Reqs : CreateSlicePersists(r)
  \/ \E r \in Reqs : CreateSliceAudits(r)
  \/ \E r \in Reqs, sliceId \in SliceIds, now \in Nows(db) :
       HandleStopSlice(r, sliceId, now)
  \/ \E r \in Reqs : StopSliceAudits(r)
  \/ \E rawHostHeader \in HostHeaders(db) \cup ColonHeaders(db) :
       RouterExchange(rawHostHeader)

SpecHosts == InitRoutes /\ [][NextHosts]_vars

\* names of pies whose slugs differ only behind the cut of slugifyPieName:
\* the slug of the second is cut right behind its "-"
SlugNames ==
  { Repeat("a", MaxSlugLen - 1),
    Repeat("a", MaxSlugLen - 1) \o <<"!", "b">>,
    <<"b">> }

\* the Store after two POST /v1/pies with names of different slugs
InitSlugs ==
  /\ \E first \in SlugNames, second \in SlugNames :
       /\ slugifyPieName(first) # slugifyPieName(second)
       /\ db = appendAuditLog(
                 createPie(
                   appendAuditLog(createPie(EmptyDb, 1, first, slugifyPieName(first)),
                                  "pie.created", 1, Null, Null),
                   2, second, slugifyPieName(second)),
                 "pie.created", 2, Null, Null)
  /\ req = [r \in Reqs |-> IdleReq]
  /\ nextId = 2
  /\ started = MaxOps - 2
  /\ wrote = [r \in Reqs |-> FALSE]
  /\ everPorts = {}
  /\ everOrdinals = {}
  /\ proxy = NoProxy
  /\ appended = [r \in Reqs |-> <<>>]
  /\ pending = <<>>
  /\ retired = [stopped |-> {}, removed |-> {}, slices |-> {}]
  /\ file = NoFile
  /\ machine = NoMachine
  /\ daemon = Serving(RouterPort)

\* POST /v1/slices for either pie
NextSlugs ==
  \/ \E r \in Reqs, ident \in PieIdents :
       HandleCreateSlice(r, ident, <<Res("web", "http", "primary")>>)
  \/ \E r \in Reqs, available \in BOOLEAN : ProbeResolves(r, available)
  \/ \E r \in Reqs : CreateSlicePersists(r)
  \/ \E r \in Reqs : CreateSliceAudits(r)

SpecSlugs == InitSlugs /\ [][NextSlugs]_vars

\* the control API together with the router proxy
NextRouter ==
  \/ Next
  \/ \E rawHostHeader \in HostHeaders(db) \cup RetiredHeaders :
       RouterRequest(rawHostHeader)

SpecRouter == Init /\ [][NextRouter]_vars

\* the rows a file of an earlier version of the program may hold, with the
\* legacy columns
AllRows ==
  [pies |->
     { [id |-> 1, slug |-> "a", repo_path |-> "/repo/a"],
       [id |-> 2, slug |-> "b", repo_path |-> "/repo/b"] },
   slices |->
     { [id |-> 11, pie_id |-> 1, ordinal |-> 1, worktree_path |-> "/wt/1",
        branch |-> "main"],
       [id |-> 12, pie_id |-> 2, ordinal |-> 1, worktree_path |-> "/wt/2",
        branch |-> "dev"] },
   slice_resources |->
     { [id |-> 21, slice_id |-> 11, port |-> RangeStart],
       [id |-> 22, slice_id |-> 12, port |-> RangeStart + 1] },
   audit_log |->
     { [id |-> 31, pie_id |-> 1, slice_id |-> 11, kind |-> "slice.created"],
       [id |-> 32, pie_id |-> Null, slice_id |-> Null, kind |-> "pie.deleted"] }]

\* the files createDatabase may find: a new, empty file, and files written
\* under user_version 0 or 1 with any of the legacy columns and any rows,
\* dangling references included (the legacy file is not the daemon's to
\* vouch for)
LegacyFiles ==
  {NoFile} \cup
  { [userVersion |-> version,
     columns |-> [t \in Tables |-> LatestColumns[t] \cup legacy[t]],
     rows |-> [t \in Tables |->
                 { [c \in LatestColumns[t] \cup legacy[t] |-> row[c]] :
                     row \in chosen[t] }],
     outcome |-> "closed", found |-> <<>>] :
      version \in {0, 1},
      legacy \in [pies : SUBSET LegacyColumns["pies"],
                  slices : SUBSET LegacyColumns["slices"],
                  slice_resources : {{}}, audit_log : {{}}],
      chosen \in [pies : SUBSET AllRows["pies"],
                  slices : SUBSET AllRows["slices"],
                  slice_resources : SUBSET AllRows["slice_resources"],
                  audit_log : SUBSET AllRows["audit_log"]] }

InitMigrate ==
  /\ db = EmptyDb
  /\ req = [r \in Reqs |-> IdleReq]
  /\ nextId = 0
  /\ started = 0
  /\ wrote = [r \in Reqs |-> FALSE]
  /\ everPorts = {}
  /\ everOrdinals = {}
  /\ proxy = NoProxy
  /\ appended = [r \in Reqs |-> <<>>]
  /\ pending = <<>>
  /\ daemon = Booting
  /\ retired = [stopped |-> {}, removed |-> {}, slices |-> {}]
  /\ file \in LegacyFiles
  /\ machine = NoMachine

NextMigrate == OpenDatabase \/ CloseDatabase

SpecMigrate == InitMigrate /\ [][NextMigrate]_vars

\* any state file, any pid file and any processes
InitDown ==
  /\ db = EmptyDb
  /\ req = [r \in Reqs |-> IdleReq]
  /\ nextId = 0
  /\ started = 0
  /\ wrote = [r \in Reqs |-> FALSE]
  /\ everPorts = {}
  /\ everOrdinals = {}
  /\ proxy = NoProxy
  /\ appended = [r \in Reqs |-> <<>>]
  /\ pending = <<>>
  /\ daemon = Booting
  /\ retired = [stopped |-> {}, removed |-> {}, slices |-> {}]
  /\ file = NoFile
  /\ \E statePid \in Pids \cup {0}, pidFile \in Pids \cup {0},
        procs \in [Pids -> Commands \cup {Dead}] :
       machine = [NoMachine EXCEPT !.statePid = statePid, !.pidFile = pidFile,
                                   !.procs = procs, !.pc = "ready"]

NextDown ==
  \/ DownDaemon
  \/ \E pid \in Pids : ProcessExits(pid)
  \/ \E deadline \in BOOLEAN : TerminateResumes(deadline)

SpecDown == InitDown /\ [][NextDown]_vars

(* ------------------------------- claims ------------------------------- *)

CreateSlices == {r \in Reqs : req[r].kind = "createSlice"}

\* C1: however createSlice calls interleave at the await of the port
\* allocator, no two persisted resources hold the same allocatedPort and
\* no two persisted slices hold the same host.
C1_NoSharedPortOrHost ==
  /\ \A a, b \in db.resources : a # b => a.port # b.port
  /\ \A s, t \in db.slices : s.id # t.id => s.host # t.host

\* two createSlice calls raced to the same port: one has persisted it, the
\* other was refused
C1_Witness ==
  \E r1, r2 \in CreateSlices :
    /\ r1 # r2
    /\ req[r1].pc \in {"audit", "done"}
    /\ \E x \in db.resources : x.sliceId = req[r1].sliceId /\ x.port \in SeqElems(req[r2].ports)
    /\ req[r2].pc = "done"
    /\ req[r2].outcome = ErrUnique("slice_resources.port")

\* C2: the port lists allocateMany has returned to two createSlice calls
\* that have both yet to persist them are disjoint.
C2_RacingAllocationsDisjoint ==
  \A r1, r2 \in CreateSlices :
    (r1 # r2 /\ req[r1].pc = "allocated" /\ req[r2].pc = "allocated")
      => SeqElems(req[r1].ports) \cap SeqElems(req[r2].ports) = {}

\* createSlice has failed on the exhausted range or on a uniqueness
\* violation of the slice row or of the resource rows
CreateSliceFailed(q) ==
  /\ q.kind = "createSlice"
  /\ q.pc = "done"
  /\ q.outcome \in { ErrExhausted(q.count),
                      ErrUnique("slices.host"),
                      ErrUnique("slices.pie_id, slices.ordinal"),
                      ErrUnique("slice_resources.port"),
                      ErrUnique("slice_resources.route_host"),
                      ErrUnique("slice_resources.slice_id, slice_resources.key") }

\* C3: a createSlice that fails (range exhausted, conflict on the slice
\* row, uniqueness violation on the resource rows) leaves no row of its
\* own in the Store.
C3_FailedCreateSliceLeavesNothing ==
  \A r \in Reqs : CreateSliceFailed(req[r]) => ~wrote[r]

\* C4: when allocateMany returns, its result holds exactly count ports,
\* pairwise distinct, inside the range, none of them one of the existing
\* ports, each one probed free during the call, in ascending order.
C4_AllocateManyResult ==
  \A r \in Reqs :
    (req[r].kind = "allocateMany" /\ req[r].pc = "allocated") =>
      LET ports == req[r].ports
      IN  /\ Len(ports) = req[r].count
          /\ \A i, j \in 1..Len(ports) : i < j => ports[i] < ports[j]
          /\ SeqElems(ports) \subseteq Range
          /\ SeqElems(ports) \cap req[r].existing = {}
          /\ SeqElems(ports) \subseteq req[r].passed

\* allocateMany has returned two ports after it skipped the first port of
\* the range, an existing one or one whose probe failed
C4_Witness ==
  \E r \in Reqs :
    /\ req[r].kind = "allocateMany"
    /\ req[r].pc = "allocated"
    /\ Len(req[r].ports) = 2
    /\ req[r].ports[1] > RangeStart
    /\ RangeStart \in req[r].existing \cup (req[r].probed \ req[r].passed)

\* the ports of the range that are not existing ones and were probed free
\* during the call
Usable(q) == {p \in Range : p \notin q.existing /\ p \in q.passed}

\* C5: allocateMany (count >= 1) fails with the exhausted-range error
\* exactly when, every port of the range outside the existing ones having
\* been probed, fewer than count of them were free; it then hands no port
\* to its caller.
C5_ExhaustedExactlyWhenTooFewFree ==
  \A r \in Reqs :
    (req[r].kind = "allocateMany" /\ req[r].pc \in {"allocated", "done"}
       /\ req[r].count >= 1) =>
      /\ (req[r].outcome = ErrExhausted(req[r].count))
            <=> (Cardinality(Usable(req[r])) < req[r].count)
      /\ (req[r].outcome = ErrExhausted(req[r].count)) =>
            /\ req[r].probed = Range \ req[r].existing
            /\ req[r].ports = <<>>
            /\ req[r].pc = "done"

\* allocateMany has failed although some port of the range was free
C5_Witness ==
  \E r \in Reqs :
    /\ req[r].kind = "allocateMany"
    /\ req[r].pc = "done"
    /\ req[r].outcome = ErrExhausted(req[r].count)
    /\ Usable(req[r]) # {}

\* the allocator was asked and the range could not supply count ports
CannotSupply(q) ==
  /\ q.count >= 1
  /\ Range \subseteq q.existing \cup q.probed
  /\ Cardinality(Usable(q)) < q.count

\* C6: when the allocator cannot supply as many free ports as the request
\* has resources, createSlice fails with the exhaustion error and the
\* request has written nothing to the Store.
C6_ExhaustionWritesNothing ==
  \A r \in CreateSlices :
    (req[r].pc = "done" /\ CannotSupply(req[r])) =>
      /\ req[r].outcome = ErrExhausted(Len(req[r].resources))
      /\ ~wrote[r]

\* a createSlice with two resources has failed on the exhausted range
\* while another slice holds a port of the range
C6_Witness ==
  \E r \in CreateSlices :
    /\ req[r].pc = "done"
    /\ CannotSupply(req[r])
    /\ Len(req[r].resources) = 2
    /\ req[r].existing # {}

\* C7: no two slices share (pieId, ordinal), no two slices share a host,
\* and every ordinal is at least 1.
C7_SliceInvariants ==
  /\ \A s, t \in db.slices :
       s.id # t.id => /\ <<s.pieId, s.ordinal>> # <<t.pieId, t.ordinal>>
                      /\ s.host # t.host
  /\ \A s \in db.slices : s.ordinal >= 1

\* a pie holds two slices, one of them stopped, and a request has removed
\* a slice or found its ordinal taken
C7_Witness ==
  /\ \E s, t \in db.slices : s.id # t.id /\ s.pieId = t.pieId /\ s.status = "stopped"
  /\ Len(db.audit) >= 4

\* C8: within a slice no two resources share a key; no two resources share
\* an allocatedPort; no two resources share a routeHost when present; a
\* slice has at most one resource with protocol http and expose primary.
C8_ResourceInvariants ==
  /\ \A a, b \in db.resources :
       a # b => /\ (a.sliceId = b.sliceId => a.key # b.key)
                /\ a.port # b.port
                /\ (a.routeHost # NullStr => a.routeHost # b.routeHost)
  /\ \A t \in db.slices :
       Cardinality({a \in db.resources :
                      a.sliceId = t.id /\ a.protocol = "http" /\ a.expose = "primary"}) <= 1

\* two slices hold three resources, two of them with a routeHost
C8_Witness ==
  /\ Cardinality(db.resources) >= 3
  /\ Cardinality({a \in db.resources : a.routeHost # NullStr}) >= 2
  /\ Cardinality({a.sliceId : a \in db.resources}) >= 2

\* resources and slices a step inserts
NewResources == {n \in db'.resources : n \notin db.resources}
NewSlices == {n \in db'.slices : \A t \in db.slices : t.id # n.id}

\* C9 as stated: a port that has once been persisted for a resource is
\* never persisted for another resource, also after the slice that held
\* it was stopped or removed.
C9_PortNeverAllocatedAgain ==
  [][\A n \in NewResources : n.port \notin everPorts]_vars

\* C9 as amended: a port is never persisted for a resource while another
\* persisted resource holds it, the resources of stopped slices included.
C9_PortNotAllocatedWhileHeld ==
  [][\A n \in NewResources : \A held \in db.resources : held.port # n.port]_vars

\* a slice was created after another slice was stopped, and both hold
\* ports
C9_Witness ==
  \E i, j \in 1..Len(db.audit) :
    /\ i < j
    /\ db.audit[i].kind = "slice.stopped"
    /\ db.audit[j].kind = "slice.created"
    /\ \E a, b \in db.resources :
         a.sliceId = db.audit[i].sliceId /\ b.sliceId = db.audit[j].sliceId

\* C10 as stated: a new slice's ordinal is greater than the ordinal of
\* every slice ever created in its pie, removed ones included.
C10_OrdinalNeverHandedOutTwice ==
  [][\A n \in NewSlices :
       \A po \in everOrdinals : po[1] = n.pieId => n.ordinal > po[2]]_vars

\* C10 as amended: a new slice's ordinal is greater than the ordinal of
\* every slice its pie held when createSlice read the next ordinal.
C10_OrdinalAboveThoseSeen ==
  [][\A r \in Reqs : \A n \in NewSlices :
       (req[r].pc = "allocated" /\ req'[r].sliceId = n.id) =>
          \A o \in req[r].seenOrdinals : n.ordinal > o]_vars

\* a pie holds a slice with ordinal 2 created by a call that saw ordinal 1
C10_Witness ==
  \E r \in CreateSlices :
    /\ req[r].pc \in {"audit", "done"}
    /\ req[r].seenOrdinals = {1}
    /\ \E t \in db.slices : t.id = req[r].sliceId /\ t.ordinal = 2

\* C11: in every reachable state, a slice has status stopped if and only
\* if its stoppedAt is not null.
C11_StoppedIffStoppedAt ==
  \A s \in db.slices : (s.status = "stopped") <=> (s.stoppedAt # Null)

\* a stopped slice next to a running one
C11_Witness ==
  \E s, t \in db.slices :
    /\ s.status = "stopped" /\ s.stoppedAt # Null
    /\ t.status = "running" /\ t.stoppedAt = Null

\* C12: a slice is created in status running, and a slice that is stopped
\* keeps status stopped in every later state in which it still exists.
C12_StatusMonotone ==
  [][ /\ \A t \in NewSlices : t.status = "running"
      /\ \A s \in db.slices : s.status = "stopped" =>
            \A t \in db'.slices : t.id = s.id => t.status = "stopped" ]_vars

\* a stopped slice has been stopped once more, by a second stop request
C12_Witness ==
  \E r \in Reqs, s \in db.slices :
    /\ req[r].kind = "stopSlice" /\ req[r].pc = "done" /\ req[r].outcome = "ok"
    /\ s.id = req[r].sliceId /\ s.status = "stopped"
    /\ Len(SelectSeq(db.audit, LAMBDA a : a.kind = "slice.stopped"
                                          /\ a.sliceId = s.id)) >= 2

\* C13: stopping a slice that is already stopped leaves the slice exactly
\* as the first stop left it: status stopped and stoppedAt unchanged.
C13_StopIdempotent ==
  [][ \A s \in db.slices : s.status = "stopped" =>
        \A t \in db'.slices : t.id = s.id => t = s ]_vars

\* C14: after a pie is deleted no slice and no slice resource of that pie
\* remains in the Store, and every audit entry that referred to the pie is
\* still there, with its pieId null.  Ids are never handed out twice, so
\* what holds right after the deletion of the pie's rows holds ever after.
C14_DeletedPieLeavesNothing ==
  [][ /\ \A p \in db.pies : (~\E n \in db'.pies : n.id = p.id) =>
            /\ ~\E s \in db'.slices : s.pieId = p.id
            /\ ~\E x \in db'.resources :
                  \E s \in db.slices : s.pieId = p.id /\ x.sliceId = s.id
            /\ Len(db'.audit) >= Len(db.audit)
            /\ \A i \in 1..Len(db.audit) : db.audit[i].pieId = p.id =>
                  /\ db'.audit[i].pieId = Null
                  /\ db'.audit[i].kind = db.audit[i].kind
                  /\ db'.audit[i].payload = db.audit[i].payload
      /\ \A s \in db'.slices : \E p \in db'.pies : p.id = s.pieId
      /\ \A x \in db'.resources : \E s \in db'.slices : s.id = x.sliceId ]_vars

\* a pie has been deleted while it held a slice that a racing createSlice
\* had just persisted: the rows went with the pie, and the pie.created
\* entry is in the log with pieId null
C14_Witness ==
  /\ \E i \in 1..Len(db.audit) : db.audit[i].kind = "pie.deleted"
  /\ \E i \in 1..Len(db.audit) :
       db.audit[i].kind = "pie.created" /\ db.audit[i].pieId = Null
  /\ \E r \in Reqs :
       /\ req[r].kind = "createSlice" /\ req[r].pc = "audit"
       /\ ~\E p \in db.pies : p.id = req[r].pie.id
       /\ ~\E s \in db.slices : s.id = req[r].sliceId
       /\ ~\E x \in db.resources : x.sliceId = req[r].sliceId

\* C15: the deletion of a pie is all or nothing: while handleRemovePie is
\* suspended, where other requests run, and after it has failed, the Store
\* shows none of its writes.
C15_PieDeletionAllOrNothing ==
  \A r \in Reqs :
    req[r].kind = "removePie" /\ wrote[r] =>
      req[r].pc = "done" /\ req[r].outcome = "ok"

\* C16: the router answers 400 when the normalized Host is empty; else 404
\* when no resource has that route host; else 503 when the slice of the
\* route is not running; and forwards only otherwise, to 127.0.0.1 on the
\* port of the resource that has the route host.
C16_RouterDecisionOrder ==
  LET routes == {x \in db.resources : x.routeHost = proxy.host}
      running == \A x \in routes : \A t \in db.slices :
                   t.id = x.sliceId => t.status = "running"
  IN  proxy # NoProxy =>
        /\ proxy.statusCode = 400 <=> proxy.host = ""
        /\ proxy.statusCode = 404 <=> proxy.host # "" /\ routes = {}
        /\ proxy.statusCode = 503 <=> proxy.host # "" /\ routes # {} /\ ~running
        /\ proxy.statusCode = 200 <=> proxy.host # "" /\ routes # {} /\ running
        /\ proxy.statusCode = 200 =>
              /\ proxy.hostname = "127.0.0.1"
              /\ \E x \in routes : x.port = proxy.port
        /\ proxy.statusCode \in {400, 404, 503, 200}

\* a request for the subdomain route of a running slice has been forwarded
\* to the second port of the range while a stopped slice is in the Store
C16_Witness ==
  /\ proxy.statusCode = 200 /\ proxy.port = RangeStart + 1
  /\ \E t \in db.slices : t.status = "stopped"

\* the kind of audit entry a request of each kind appends
AuditKindOf(kind) ==
  CASE kind = "createPie" -> "pie.created"
    [] kind = "removePie" -> "pie.deleted"
    [] kind = "createSlice" -> "slice.created"
    [] kind = "stopSlice" -> "slice.stopped"
    [] kind = "removeSlice" -> "slice.deleted"

\* C17: a mutating request that succeeds has appended an audit entry of
\* the matching kind by the time it returns, and one that fails has
\* appended none.
C17_AuditIffSuccess ==
  \A r \in Reqs :
    req[r].pc = "done" /\ req[r].kind # "none" =>
      IF req[r].outcome = "ok"
      THEN AuditKindOf(req[r].kind) \in SeqElems(appended[r])
      ELSE appended[r] = <<>>

\* C18: the audit log is in commit order: when a request appends the entry
\* of a mutation it has committed, the log holds no entry of a mutation
\* that was committed after it.
C18_AuditOrderIsCommitOrder ==
  [][ \A r \in Reqs :
        req'[r] # req[r] /\ AwaitsAudit(req[r]) /\ Len(db'.audit) > Len(db.audit) =>
          \A i \in 1..Len(pending) : pending[i].slot = r => ~pending[i].overtaken ]_vars

\* C19: the audit log is insert-only: no step removes an entry or changes
\* its kind or payload; a step only appends entries and sets the pieId or
\* sliceId of an entry to null, so the log never gets shorter.
C19_AuditInsertOnly ==
  [][ /\ Len(db'.audit) >= Len(db.audit)
      /\ \A i \in 1..Len(db.audit) :
            /\ db'.audit[i].kind = db.audit[i].kind
            /\ db'.audit[i].payload = db.audit[i].payload
            /\ db'.audit[i].pieId \in {db.audit[i].pieId, Null}
            /\ db'.audit[i].sliceId \in {db.audit[i].sliceId, Null} ]_vars

\* a slice has been removed and later its pie: the slice.created entry has
\* lost its sliceId and its pieId and is still in the log
C19_Witness ==
  /\ db.pies = {}
  /\ \E i, j \in 1..Len(db.audit) :
       /\ i < j
       /\ db.audit[i].kind = "slice.created"
       /\ db.audit[i].sliceId = Null /\ db.audit[i].pieId = Null
       /\ db.audit[j].kind = "pie.deleted"

\* C20: deleting a pie takes its slices one after another: a slice that is
\* not stopped is stopped before it is removed, a slice that is already
\* stopped is removed without being stopped again, and the pie is deleted
\* only after every one of its slices has been removed.
C20_PieDeletionOrder ==
  [][ \A r \in Reqs :
        req'[r] # req[r] /\ req'[r].kind = "removePie" =>
          /\ \A s \in db.slices :
                (\A t \in db'.slices : t.id # s.id) => s.status = "stopped"
          /\ req'[r].pc = "pieStopped" =>
                \A s \in db.slices :
                  s.id = Head(req'[r].queue).id => s.status # "stopped"
          /\ \A p \in db.pies :
                (\A n \in db'.pies : n.id # p.id) =>
                  \A s \in db.slices : s.pieId # p.id ]_vars

\* a resource that createSlice routes: protocol http, exposed
Routed(x) == x.protocol = "http" /\ x.expose \in {"primary", "subdomain"}

\* the resources of the slices a request has returned, each with the host
\* of its slice
ReturnedResources ==
  UNION { UNION { { [host |-> req[r].result[i].host,
                     resource |-> req[r].result[i].resources[k]] :
                    k \in 1..Len(req[r].result[i].resources) } :
                  i \in 1..Len(req[r].result) } : r \in Reqs }

\* C21: every slice resource, persisted or returned by createSlice or
\* listSlices, has a routeHost exactly when its protocol is http and its
\* expose is primary or subdomain; the routeHost is the host of its slice
\* for primary and key "." host for subdomain; every other resource has
\* neither routeHost nor routeUrl.
C21_RouteHostByProtocolAndExpose ==
  /\ \A x \in db.resources : \A t \in db.slices :
       t.id = x.sliceId =>
         /\ (x.routeHost # NullStr) <=> Routed(x)
         /\ (Routed(x) /\ x.expose = "primary") => x.routeHost = t.host
         /\ (Routed(x) /\ x.expose = "subdomain") =>
              x.routeHost = x.key \o "." \o t.host
  /\ \A y \in ReturnedResources :
       LET x == y.resource
       IN  /\ (x.routeHost # NullStr) <=> Routed(x)
           /\ (Routed(x) /\ x.expose = "primary") => x.routeHost = y.host
           /\ (Routed(x) /\ x.expose = "subdomain") =>
                x.routeHost = x.key \o "." \o y.host
           /\ ~Routed(x) => x.routeHost = NullStr /\ x.routeUrl = NullStr

\* a slice with a subdomain resource and a udp resource marked primary has
\* been created and listed
C21_Witness ==
  \E r \in Reqs :
    /\ req[r].kind = "listSlices"
    /\ Len(req[r].result) = 1
    /\ \E i, j \in 1..Len(req[r].result[1].resources) :
         /\ req[r].result[1].resources[i].protocol = "http"
         /\ req[r].result[1].resources[i].expose = "subdomain"
         /\ req[r].result[1].resources[i].routeHost = "a.b-s1.localtest.me"
         /\ req[r].result[1].resources[j].protocol = "udp"
         /\ req[r].result[1].resources[j].expose = "primary"
         /\ req[r].result[1].resources[j].routeHost = NullStr
    /\ \E x \in db.resources : x.protocol = "udp" /\ x.routeHost = NullStr

C27_OutputUrlAndPorts ==
  \A r \in Reqs :
    req[r].output # NoOutput =>
      LET slice == req[r].result[1]
          out == req[r].output
          n == Len(slice.resources)
          primary == {i \in 1..n : slice.resources[i].protocol = "http"
                                   /\ slice.resources[i].expose = "primary"}
      IN  /\ out.error = ""
          /\ primary = {} => out.url = NullStr
          /\ \A i \in primary :
               /\ out.url = slice.resources[i].routeUrl
               /\ out.url = buildRouteUrl(slice.host, daemon.routerPort)
          /\ Len(out.allocatedPorts) = n
          /\ \A i \in 1..n :
               /\ out.allocatedPorts[i] = slice.resources[i].allocatedPort
               /\ \E x \in db.resources :
                    /\ x.sliceId = slice.id
                    /\ x.key = slice.resources[i].key
                    /\ x.port = out.allocatedPorts[i]

\* the client has printed a slice whose second resource is the primary
\* one, its keys against the alphabet and its ports not adjacent
C27_Witness ==
  \E r \in Reqs :
    /\ req[r].output # NoOutput
    /\ req[r].output.url = "http://b-s1.localtest.me:4080"
    /\ req[r].output.allocatedPorts = <<RangeStart, RangeStart + 2>>
    /\ req[r].result[1].resources[1].key = "b"
    /\ req[r].result[1].resources[1].protocol = "tcp"
    /\ req[r].result[1].resources[2].expose = "primary"

\* C23: in every reachable state the slug of every pie is non-empty, made
\* of the characters a-z, 0-9 and "-" only, at most 32 characters long, and
\* different from the slug of every other pie.
C23_PieSlugShape ==
  /\ \A p \in db.pies :
       /\ Len(p.slug) >= 1
       /\ Len(p.slug) <= 32
       /\ \A i \in 1..Len(p.slug) :
            p.slug[i] \in SeqElems(LowerChars) \cup SeqElems(DigitChars) \cup {"-"}
  /\ \A p, q \in db.pies : p.id # q.id => p.slug # q.slug

\* three pies: one with a slug of 32 letters cut from a longer name, one
\* whose slug was cut behind a "-", and one named with dashes, digits and
\* capitals
C23_Witness ==
  \E p, q, n \in db.pies :
    /\ p.slug = Repeat("a", 32) /\ Len(p.name) = 33
    /\ Len(q.slug) = 32 /\ q.slug[32] = "-"
    /\ n.slug = <<"7", "-", "z">> /\ Len(n.name) = 6

\* C24: a POST /v1/pies whose derived slug is the slug of an existing pie
\* fails with a conflict, answered with status 409; it leaves the Store as
\* it was: no pie created, no audit entry appended, the existing pie
\* unchanged.
C24_SlugConflict ==
  [][\A r \in Reqs :
       (req'[r] # req[r] /\ req'[r].kind = "createPie"
        /\ slugifyPieName(req'[r].name) # <<>>
        /\ \E p \in db.pies : p.slug = slugifyPieName(req'[r].name)) =>
         /\ req'[r].pc = "done"
         /\ req'[r].outcome = ErrUnique("pies.slug")
         /\ responseStatus(req'[r]) = 409
         /\ db' = db
         /\ ~wrote'[r]
         /\ appended'[r] = <<>>]_vars

\* a pie named with 33 letters exists, and a request to create a pie named
\* with 32 capitals, another name with the same slug, was answered 409
C24_Witness ==
  \E r \in Reqs :
    /\ req[r].kind = "createPie" /\ req[r].pc = "done"
    /\ req[r].name = Repeat("A", 32)
    /\ responseStatus(req[r]) = 409
    /\ \E p \in db.pies : p.name = Repeat("a", 33) /\ p.slug = Repeat("a", 32)
    /\ Cardinality(db.pies) = 1
    /\ Len(db.audit) = 1

\* C25: a stop or a remove request that names a slice the Store does not
\* hold, and a pie removal that names a pie the Store does not hold, fails
\* with not-found, answered with status 404, and leaves the Store as it
\* was: nothing stopped, removed or deleted, no audit entry appended.
C25_UnknownIsNotFound ==
  [][\A r \in Reqs :
       (started' = started + 1 /\ req'[r] # req[r]) =>
         /\ (/\ req'[r].kind \in {"stopSlice", "removeSlice"}
             /\ \A t \in db.slices : t.id # req'[r].sliceId) =>
              /\ req'[r].pc = "done"
              /\ req'[r].outcome = "Slice not found"
              /\ responseStatus(req'[r]) = 404
              /\ db' = db
         /\ (/\ req'[r].kind = "removePie"
             /\ ~EmptyIdent(req'[r].ident)
             /\ \A p \in db.pies :
                  /\ ~(req'[r].ident[1] = "id" /\ p.id = req'[r].ident[2])
                  /\ ~(req'[r].ident[1] = "slug" /\ p.slug = req'[r].ident[2])) =>
              /\ req'[r].pc = "done"
              /\ req'[r].outcome = "Pie not found"
              /\ responseStatus(req'[r]) = 404
              /\ db' = db]_vars

\* with a running slice in the Store, the removal of a slice and the
\* removal of a pie that do not exist have both been answered 404
C25_Witness ==
  /\ \E t \in db.slices : t.status = "running"
  /\ \E r1, r2 \in Reqs :
       /\ req[r1].kind = "removeSlice" /\ req[r1].pc = "done"
       /\ req[r1].sliceId = 0 /\ responseStatus(req[r1]) = 404
       /\ req[r2].kind = "removePie" /\ req[r2].pc = "done"
       /\ req[r2].ident = ById(0) /\ responseStatus(req[r2]) = 404
  /\ Len(db.audit) = 2

\* the port the router proxy is bound to is the first candidate, in the
\* configured order, whose bind did not fail, or the port of listen(0)
\* after every candidate has failed
BoundToFirstFree ==
  LET n == Len(RouterPortCandidates)
  IN  daemon.bound # 0 =>
        /\ daemon.bound \notin daemon.failed
        /\ \A i \in 1..n :
             RouterPortCandidates[i] = daemon.bound =>
               \A j \in 1..(i - 1) : RouterPortCandidates[j] \in daemon.failed
        /\ daemon.bound \notin SeqElems(RouterPortCandidates) =>
             /\ daemon.bound = OsAssignedPort
             /\ \A i \in 1..n : RouterPortCandidates[i] \in daemon.failed

\* C26: at startup the router proxy is bound before the control API
\* listens, to the first candidate port in configured order whose bind
\* succeeds, and to the port of listen(0) only when every candidate has
\* failed; routerPort holds the bound port before the control API serves
\* its first request, and never changes once the control API listens.
C26_StartupOrder ==
  /\ [](/\ BoundToFirstFree
        /\ daemon.pc \in {"listen", "serving"} => daemon.bound # 0
        /\ (daemon.pc = "serving" \/ started > 0) => daemon.routerPort = daemon.bound
        /\ started > 0 => daemon.pc = "serving")
  /\ [][daemon.pc = "serving" =>
          daemon'.routerPort = daemon.routerPort /\ daemon'.bound = daemon.bound]_vars

\* 80, 443 and 4080 were taken, the router proxy is bound to the port the
\* operating system chose, and a slice created since carries that port
C26_Witness ==
  /\ daemon.pc = "serving"
  /\ daemon.failed = {80, 443, 4080}
  /\ daemon.bound = OsAssignedPort
  /\ \E r \in Reqs :
       /\ req[r].kind = "createSlice" /\ req[r].outcome = "ok"
       /\ req[r].result[1].routerPort = OsAssignedPort
       /\ req[r].result[1].resources[1].routeUrl = "http://a-s1.localtest.me:49152"

\* C28: in every reachable state, also when a pie or a slice is deleted
\* while a createSlice for that pie waits for its ports, the pieId of every
\* persisted slice names a pie of the Store and the sliceId of every
\* persisted resource names a slice of the Store.
C28_ReferentialIntegrity ==
  /\ \A t \in db.slices : \E p \in db.pies : p.id = t.pieId
  /\ \A x \in db.resources : \E t \in db.slices : t.id = x.sliceId

\* a createSlice whose pie was deleted while it waited for its ports has
\* been refused by the foreign key, having written nothing
C28_Witness ==
  \E r \in Reqs :
    /\ req[r].kind = "createSlice" /\ req[r].pc = "done"
    /\ req[r].outcome = ErrForeignKey
    /\ req[r].ports # <<>>
    /\ \A p \in db.pies : p.id # req[r].pie.id
    /\ ~wrote[r]

\* the errors of the UNIQUE constraints on a slice's host and ordinal and
\* on a resource's port
TakenErrors ==
  { ErrUnique("slices.host"), ErrUnique("slices.pie_id, slices.ordinal"),
    ErrUnique("slice_resources.port") }

\* C29: a createSlice request for a pie of the Store, with as many free
\* ports left in the range as it has resources, is never refused because a
\* racing createSlice has taken the ordinal, the host or the ports it had
\* computed.
C29_NotRefusedByRace ==
  \A r \in Reqs :
    (/\ req[r].kind = "createSlice" /\ req[r].pc = "done"
     /\ \E p \in db.pies : p.id = req[r].pie.id
     /\ Cardinality(Range \ getAllocatedPorts(db)) >= Len(req[r].resources)) =>
      req[r].outcome \notin TakenErrors

\* the router proxy has answered a request itself, forwarding nothing
Answered(statusCode) ==
  proxy.statusCode = statusCode /\ proxy.hostname = "" /\ proxy.port = 0

\* C30 as stated: once a slice has been stopped, every router request for
\* one of its route hosts is answered 503 and not forwarded; once the slice
\* or its pie has been removed, every such request is answered 404.
C30_RoutingFollowsLifecycle ==
  proxy.statusCode # 0 =>
    /\ proxy.host \in retired.removed => Answered(404)
    /\ proxy.host \in retired.stopped \ retired.removed => Answered(503)

\* C30 as amended: a request for a route host of a stopped slice that is
\* still in the Store is answered 503 and not forwarded; a request for a
\* route host of a removed slice is answered 404 as long as no slice
\* created since holds that route host, and otherwise follows the status of
\* the slice that holds it now.
C30_RoutingFollowsCurrentHolder ==
  proxy.statusCode # 0 =>
    LET holders == {x \in db.resources : x.routeHost = proxy.host}
    IN  /\ proxy.host \in retired.stopped \ retired.removed => Answered(503)
        /\ (proxy.host \in retired.removed /\ holders = {}) => Answered(404)
        /\ proxy.host \in retired.removed =>
             \A x \in holders : \A t \in db.slices :
               t.id = x.sliceId =>
                 IF t.status = "running"
                 THEN proxy.statusCode = 200 /\ proxy.port = x.port
                 ELSE Answered(503)

\* a slice was stopped and then removed, and a request for its host has
\* been answered 404
C30_Witness ==
  /\ proxy.host \in retired.stopped
  /\ proxy.host \in retired.removed
  /\ Answered(404)
  /\ db.slices = {}

\* C31: whenever the router proxy forwards a request, the target is
\* 127.0.0.1 on the allocatedPort of a resource that has the requested
\* route host, protocol http and expose primary or subdomain, and whose
\* slice is running when the route is looked up; the port of a tcp, udp or
\* expose=none resource is never the target.
C31_ForwardsToRoutedRunning ==
  proxy.statusCode = 200 =>
    /\ proxy.hostname = "127.0.0.1"
    /\ \E x \in db.resources :
         /\ x.port = proxy.port
         /\ x.routeHost = proxy.host
         /\ x.protocol = "http"
         /\ x.expose \in {"primary", "subdomain"}
         /\ \E t \in db.slices : t.id = x.sliceId /\ t.status = "running"
    /\ \A x \in db.resources :
         (x.protocol # "http" \/ x.expose = "none") => x.port # proxy.port

\* a request naming the udp resource of a running slice by key and host
\* has been answered 404, beside a subdomain resource that is routed
C31_Witness ==
  /\ proxy.statusCode = 404
  /\ proxy.host = "a.b-s1.localtest.me"
  /\ \E x, y \in db.resources :
       /\ x.key = "a" /\ x.protocol = "udp" /\ x.expose = "subdomain"
       /\ y.key = "b" /\ y.protocol = "http" /\ y.expose = "subdomain"
       /\ \E t \in db.slices : t.id = x.sliceId /\ t.status = "running"

\* C32: the ordinal createSlice reads from getNextSliceOrdinal is 1 when
\* the pie has no slice in the Store, and otherwise one more than the
\* largest ordinal of the slices of that pie that are in the Store; the
\* slices of other pies do not count.
C32_NextOrdinal ==
  [][\A r \in Reqs :
       (/\ started' = started + 1 /\ req'[r] # req[r]
        /\ req'[r].kind = "createSlice" /\ req'[r].pie # NoPie) =>
         LET own == {t \in db.slices : t.pieId = req'[r].pie.id}
         IN  /\ own = {} => req'[r].ordinal = 1
             /\ own # {} =>
                  \E t \in own : /\ \A u \in own : u.ordinal <= t.ordinal
                                 /\ req'[r].ordinal = t.ordinal + 1]_vars

\* a createSlice has read ordinal 1 for a pie without slices while another
\* pie holds a slice
C32_Witness ==
  \E r \in Reqs :
    /\ req[r].kind = "createSlice" /\ req[r].pie # NoPie /\ req[r].ordinal = 1
    /\ \E t \in db.slices : t.pieId # req[r].pie.id
    /\ \A t \in db.slices : t.pieId # req[r].pie.id

\* C33: the slice createSlice returns lists its resources in the order of
\* the request, resource i carries the i-th port allocateMany returned, the
\* allocatedPort values ascend strictly in that order, and the rows
\* addSliceResources has written pair the same keys with the same ports.
C33_ResourcesInRequestOrder ==
  [][\A r \in Reqs :
       (req'[r].kind = "createSlice" /\ req[r].result = <<>>
        /\ req'[r].result # <<>>) =>
         LET returned == req'[r].result[1].resources
             requested == req[r].resources
         IN  /\ Len(returned) = Len(requested)
             /\ \A i \in 1..Len(returned) :
                  /\ returned[i].key = requested[i].key
                  /\ returned[i].allocatedPort = req[r].ports[i]
                  /\ \E x \in db'.resources :
                       /\ x.sliceId = req'[r].result[1].id
                       /\ x.key = returned[i].key
                       /\ x.port = returned[i].allocatedPort
             /\ \A i, j \in 1..Len(returned) :
                  i < j => returned[i].allocatedPort < returned[j].allocatedPort
             /\ \A x \in db'.resources :
                  x.sliceId = req'[r].result[1].id =>
                    \E i \in 1..Len(returned) :
                      x.key = returned[i].key /\ x.port = returned[i].allocatedPort]_vars

\* createSlice has returned two resources whose keys are not in key order,
\* on ports that are not consecutive
C33_Witness ==
  \E r \in Reqs :
    /\ req[r].kind = "createSlice" /\ req[r].result # <<>>
    /\ Len(req[r].result[1].resources) = 2
    /\ keyRank(req[r].result[1].resources[1].key)
         > keyRank(req[r].result[1].resources[2].key)
    /\ req[r].result[1].resources[2].allocatedPort
         > req[r].result[1].resources[1].allocatedPort + 1

\* C34: every slice.deleted audit entry a step appends, in the removal of
\* one slice or for a slice of a pie being deleted, carries no sliceId and
\* has in its payload the id of a slice that has been removed; its pieId is
\* the id of that slice's pie.  The entry for the last slice of a pie
\* deletion is appended in the same synchronous run as deletePie, whose
\* ON DELETE SET NULL empties the pieId the entry was appended with.
C34_SliceDeletedEntry ==
  [][\A i \in (Len(db.audit) + 1)..Len(db'.audit) :
       db'.audit[i].kind = "slice.deleted" =>
         /\ db'.audit[i].sliceId = Null
         /\ \E t \in retired.slices :
              /\ t.id = db'.audit[i].payload
              /\ IF \E p \in db'.pies : p.id = t.pieId
                 THEN db'.audit[i].pieId = t.pieId
                 ELSE db'.audit[i].pieId = Null]_vars

\* the log holds a slice.deleted entry of a single removal and one of a
\* pie deletion still under way, both with the pie's id and no sliceId
C34_Witness ==
  \E i, j \in 1..Len(db.audit) : \E r \in Reqs :
    /\ i < j
    /\ db.audit[i].kind = "slice.deleted" /\ db.audit[j].kind = "slice.deleted"
    /\ db.audit[i].pieId # Null /\ db.audit[j].pieId = db.audit[i].pieId
    /\ db.audit[i].sliceId = Null /\ db.audit[j].sliceId = Null
    /\ db.audit[i].payload # db.audit[j].payload
    /\ req[r].kind = "removePie" /\ req[r].pc \in {"pieStopped", "pieRemoved"}
    /\ req[r].pie.id = db.audit[j].pieId

\* the number of audit entries of a kind whose payload is an id and whose
\* pieId and sliceId are as given
AuditEntries(kind, payload, pieId, sliceId) ==
  Len(SelectSeq(db.audit, LAMBDA a : /\ a.kind = kind /\ a.payload = payload
                                     /\ a.pieId = pieId /\ a.sliceId = sliceId))

\* the slots whose deletion of a pie that had slices has completed
DeletedWithSlices ==
  {r \in Reqs : /\ req[r].kind = "removePie" /\ req[r].pc = "done"
                /\ req[r].outcome = "ok" /\ req[r].slices # <<>>}

C36_FailedCheckKeepsFile ==
  [][file'.outcome = ErrForeignKeyCheck =>
       /\ file'.columns = file.columns
       /\ file'.rows = file.rows
       /\ file'.userVersion = file.userVersion]_vars

\* C37: createDatabase returning on a file with legacy columns leaves
\* every row of every table in place with its retained columns unchanged,
\* no legacy column, no foreign-key violation and user_version 2; called
\* again on the file it has brought to version 2 it changes nothing.
C37_MigrationKeepsRows ==
  [][file'.outcome = "open" =>
       /\ LegacyFound(file) # {} =>
            /\ \A t \in Tables :
                 /\ file'.columns[t] = LatestColumns[t]
                 /\ Cardinality(file'.rows[t]) = Cardinality(file.rows[t])
                 /\ \A row \in file.rows[t] : \E kept \in file'.rows[t] :
                      /\ DOMAIN kept = LatestColumns[t]
                      /\ \A c \in LatestColumns[t] : kept[c] = row[c]
            /\ \A t \in {"slices", "slice_resources", "audit_log"} :
                 \A kept \in file'.rows[t] :
                   /\ "pie_id" \in DOMAIN kept /\ kept["pie_id"] # Null =>
                        \E p \in file'.rows["pies"] : p["id"] = kept["pie_id"]
                   /\ "slice_id" \in DOMAIN kept /\ kept["slice_id"] # Null =>
                        \E x \in file'.rows["slices"] : x["id"] = kept["slice_id"]
            /\ file'.userVersion = 2
       /\ file.userVersion = 2 =>
            /\ file'.columns = file.columns
            /\ file'.rows = file.rows
            /\ file'.userVersion = 2]_vars

\* a file with all three legacy columns and a row in every table has been
\* migrated, closed and opened again
C37_Witness ==
  /\ file.outcome = "open" /\ file.userVersion = 2
  /\ file.found = <<{"repo_path", "worktree_path", "branch"}, {}>>
  /\ \A t \in Tables : file.rows[t] # {} /\ file.columns[t] = LatestColumns[t]
  /\ \E row \in file.rows["slices"] : row["id"] = 12

\* the pieces that are a port number
PortPieces == {"1", "80", ToString(RouterPort)}

\* a Host header without its trailing ":port", if it has one
WithoutTrailingPort(s) ==
  IF Len(s) >= 2 /\ s[Len(s) - 1] = ":" /\ s[Len(s)] \in PortPieces
  THEN SubSeq(s, 1, Len(s) - 2)
  ELSE s

\* C38: the host the router proxy looks up is the Host header without its
\* trailing ":port", trimmed and in lower case, whatever the header, and
\* the proxy answers 400 exactly when that host is empty.
C38_HostIsHeaderWithoutPort ==
  "rawHostHeader" \in DOMAIN proxy =>
    LET host == Join(toLowerCase(trim(WithoutTrailingPort(proxy.rawHostHeader))))
    IN  /\ proxy.host = host
        /\ proxy.statusCode = 400 <=> host = ""

\* C39: two createSlice requests for pies with different slugs never
\* derive the same host, and no createSlice is refused with a host
\* conflict because of a slice of another pie.
C39_HostsOfPiesDiffer ==
  /\ \A r1, r2 \in Reqs :
       (/\ req[r1].kind = "createSlice" /\ req[r2].kind = "createSlice"
        /\ req[r1].pie # NoPie /\ req[r2].pie # NoPie
        /\ req[r1].pie.slug # req[r2].pie.slug) =>
         req[r1].host # req[r2].host
  /\ \A r \in Reqs :
       (req[r].kind = "createSlice" /\ req[r].outcome = ErrUnique("slices.host")) =>
         \A t \in db.slices : t.host = req[r].host => t.pieId = req[r].pie.id

\* the command lines of a Bakery daemon
BakeryDaemonCommands ==
  { <<"node", " ", "/opt/", "bakery-daemon", "/index.js">>,
    <<"tsx", " ", "/repo/", "packages/daemon", "/src/index.ts">>,
    <<"Bakery", " ", "Daemon">> }

\* C40: every signal downDaemon has sent went to a process that was alive
\* and whose command line was that of a Bakery daemon; a process with any
\* other command line, or with none that ps could give, is never
\* signalled.
C40_SignalsOnlyBakeryDaemon ==
  \A s \in machine.signals :
    /\ s.command # Dead
    /\ s.command \in BakeryDaemonCommands

====
